---- MODULE Spec2Model ----
(***************************************************************************)
(* Verification model of the project-management scheduler and simulator.   *)
(*                                                                         *)
(*  - the risk-balanced ("KART") scheduler: scheduleActivities,            *)
(*    constructPriorityQueue, activityCanBeScheduled;                      *)
(*  - the earliest-feasible-start ("PERT") scheduler: topologicalSort,     *)
(*    scheduleActivities;                                                  *)
(*  - the Monte Carlo simulator: runSimulation and its nested functions.   *)
(*                                                                         *)
(* Numbers that are reals in the program are kept exact as scaled          *)
(* integers: durations and offsets in 1/TimeDen time units, revealingness  *)
(* in 1/RevDen, weightOfRevealingness in 1/WeightDen and weightOfResources *)
(* in 1/ExpectedProjectDuration.                                           *)
(***************************************************************************)
EXTENDS Integers, Sequences, FiniteSets, TLC

\* ------------------------------------------------------------------------
\* Bounds of the model
\* ------------------------------------------------------------------------
RowOrder == <<"A", "B", "C">>
Ids == {RowOrder[i] : i \in 1..Len(RowOrder)}
\* the activity sets of the runs: the first two rows, or all three
KartActivitySets == {{RowOrder[i] : i \in 1..2}}
PertActivitySets == {{RowOrder[i] : i \in 1..n} : n \in 2..Len(RowOrder)}

TimeDen == 2
MaxDuration == 3
MaxPeopleRequired == 2
MaxLevel == 2
MaxTotalPeople == 2
MaxHardMaximum == 2
MaxStartRevealingness == 1
MaxTimeSlot == 9
DecayDen == 2
MaxStart == 1
MaxSimDuration == 3
MaxSimPeopleRequired == 2
MaxTime == 7
MaxLoops == 2
MaxBatchSize == 2
MaxRunnerTime == 4
MaxTenths == 3
MantissaBits == 5
FractionBits == 10
MaxLookAheadLevel == 5

\* ------------------------------------------------------------------------
\* Defaults of scheduleActivities (risk-balanced)
\* ------------------------------------------------------------------------
ExpectedProjectDuration == 30
InitialResourceWeight == 2
InitialRevealingnessWeight == 2
SoftMaximumOfRevealingness == 3
StartTimeSlot == 0
DailyProjectCost == 100
ProjectCostPerDay == 100

\* the look-ahead scheduleActivities: default of reveilingsness_threshold and
\* the number of start times tried
ReveilingsnessThreshold == 8
LookAheadWindow == 50

\* ------------------------------------------------------------------------
\* Defaults and call parameters of runSimulation; revealingness and chances
\* are kept in 1/SimDen
\* ------------------------------------------------------------------------
SimDen == 10 * 1000
RevealingnessValues == [c \in 1..5 |-> <<500, 750, 1000, 1500, 2000>>[c]]
ChanceValues == [c \in 1..5 |-> <<330, 6660, 1000, 1500, 2000>>[c]]
CompletionReward == 150000
BaseCostPerDay == 200
DecayFactor == 200
NoValue == -1

\* Schedule_runner.js: CompletionReward, baseCostPerDay, and decayFactor in
\* tenths
RunnerCompletionReward == 150000
RunnerBaseCostPerDay == 200
RunnerDecayFactor == 9

\* ------------------------------------------------------------------------
\* Generic helpers
\* ------------------------------------------------------------------------
Range(s) == {s[i] : i \in 1..Len(s)}

RECURSIVE Pow(_, _)
Pow(b, e) == IF e = 0 THEN 1 ELSE b * Pow(b, e - 1)

RECURSIVE SetMax(_)
SetMax(S) ==
  IF S = {} THEN 0
  ELSE LET x == CHOOSE y \in S : TRUE
           m == SetMax(S \ {x})
       IN IF x > m THEN x ELSE m

\* Math.ceil of a value given in 1/TimeDen units, as a whole number of units
Ceil(h) == (h + TimeDen - 1) \div TimeDen

RevDen == Pow(DecayDen, MaxTimeSlot)
WeightDen == 2 * RevDen

VARIABLES
  activities,                  \* the Activity records, keyed by id
  totalPeople,                 \* peopleAvailableAtStart / totalPeople
  initialResourceWeight,
  rows,                        \* the Row[] read from the CSV file
  builtGraph,                  \* the Graph g of buildGraph
  buildIndex,                  \* position of activities.forEach in buildGraph
  buildPc,
  policy,                      \* which scheduler runs
  hardMaximumOfRevealingsness,
  revealingnessDecayRate,      \* numerator over DecayDen
  startRevealingness,
  graph,                       \* nodes left in the graphlib Graph
  schedule,                    \* ScheduledActivity[] of the risk-balanced run
  timeSlots,                   \* TimeSlots ledger of the risk-balanced run
  weightOfResources,
  weightOfRevealingness,
  currentTimeSlot,
  kartPc,
  sorted,                      \* topologicalSort(graph) of the earliest-start run
  nodeIndex,                   \* position of the for loop in sorted
  start,                       \* candidate start of the node being placed
  pertTimeSlots,               \* { peopleUsed, cost }[] of the earliest-start run
  pertSchedule,                \* ScheduledActivity[] of the earliest-start run
  pertPc,
  criticalPath,                \* { path, duration } returned by calculateCriticalPath
  simSchedule,                 \* the Activity[] read from inputFile
  amountOfLoops,
  batchSize,
  decayFactor,                 \* the decayFactor parameter, in 1/SimDen
  availablePeople,
  globalRevealingness,
  currentTime,
  currentDecayTime,
  totalCost,                   \* in 1/TimeDen
  totalDelayDays,
  blocked,
  failingActivity,
  unfinishedActivities,
  delays,
  peopleLost,
  done,
  inProgress,
  toDo,
  tempSchedule,                \* the copy of the schedule a trial works on
  projectFinished,
  results,                     \* the batch of results not yet written
  outputFile,                  \* what has been written to outputFile
  loopIndex,                   \* i of the trial loop
  drawn,                       \* outcomes of the random draws of the trial
  startedAt,                   \* history: the clock at which each row of
                               \* tempSchedule entered inProgress
  trialLog,                    \* per finished trial: its draws and its result
  simPc

buildVars == <<rows, builtGraph, buildIndex, buildPc>>
inputVars == <<activities, totalPeople, initialResourceWeight, policy,
               hardMaximumOfRevealingsness,
               revealingnessDecayRate, startRevealingness, buildVars>>
kartVars == <<graph, schedule, timeSlots, weightOfResources,
              weightOfRevealingness, currentTimeSlot, kartPc>>
pertVars == <<sorted, nodeIndex, start, pertTimeSlots, pertSchedule, pertPc,
              criticalPath>>
schedVars == <<inputVars, kartVars, pertVars>>
simInputVars == <<simSchedule, amountOfLoops, batchSize, decayFactor>>
trialVars == <<availablePeople, globalRevealingness, currentTime,
               currentDecayTime, totalCost, totalDelayDays, blocked,
               failingActivity, unfinishedActivities, delays, peopleLost, done,
               inProgress, toDo, tempSchedule, projectFinished, drawn,
               startedAt>>
batchVars == <<results, outputFile, loopIndex, trialLog>>
simVars == <<simInputVars, trialVars, batchVars, simPc>>
vars == <<schedVars, simVars>>

\* ------------------------------------------------------------------------
\* Activity records and the graph built from them (buildGraph)
\* ------------------------------------------------------------------------
Nodes == DOMAIN activities

\* graph.edges(): one edge dep -> act for every dependency, between nodes
\* that are still in the graph (removeNode deletes incident edges)
Edges(g) == {e \in g \X g : e[1] \in activities[e[2]].dependencies}
OutEdges(g, n) == {e \in Edges(g) : e[1] = n}
InEdges(g, n) == {e \in Edges(g) : e[2] = n}

\* ------------------------------------------------------------------------
\* constructPriorityQueue
\* ------------------------------------------------------------------------
\* score * ExpectedProjectDuration * WeightDen
calculateWeightedActivityPriority(a, wRev, wRes) ==
  activities[a].level_of_revealingness * wRev * ExpectedProjectDuration
    - activities[a].people_required * wRes * WeightDen

\* a dequeue that returns any element of the queue, whatever its score
DequeueAny(queue, wRev, wRes) == queue

\* what MinPriorityQueue.dequeue may return: an element of minimal score
\* (the order among equal scores is left to the heap)
Dequeue(queue, wRev, wRes) ==
  {a \in queue : \A b \in queue :
      calculateWeightedActivityPriority(a, wRev, wRes)
        <= calculateWeightedActivityPriority(b, wRev, wRes)}

RECURSIVE ProcessQueue(_, _, _, _, _, _)
ProcessQueue(g, queue, inDegree, sortedActivitiesQueue, wRev, wRes) ==
  IF queue = {} THEN {sortedActivitiesQueue}
  ELSE UNION {
    LET out == {e[2] : e \in OutEdges(g, a)}
        inD == [n \in g |-> IF n \in out THEN inDegree[n] - 1 ELSE inDegree[n]]
        q2 == (queue \ {a}) \cup {n \in out : inD[n] = 0}
    IN ProcessQueue(g, q2, inD, Append(sortedActivitiesQueue, a), wRev, wRes)
    : a \in Dequeue(queue, wRev, wRes)}

\* the set of queues constructPriorityQueue can produce, cut short when the
\* graph has a cycle
SortedActivitiesQueues(g, wRev, wRes) ==
  LET inDegree == [n \in g |-> Cardinality(InEdges(g, n))]
  IN ProcessQueue(g, {n \in g : inDegree[n] = 0}, inDegree, <<>>, wRev, wRes)

\* constructPriorityQueue without the comparison of the queue size with nodeCount
CycleNeverDetected(g, queue) == FALSE

CycleDetected(g, queue) == Len(queue) # Cardinality(g)

\* ------------------------------------------------------------------------
\* activityCanBeScheduled
\* ------------------------------------------------------------------------
\* activityCanBeScheduled without its check of the dependencies
activityCanBeScheduledIgnoringDependencies(a, slots, ordered, activityStartTime, activityEndTime, scheduledActivities, maximumSimultaniousRevealingness) ==
  /\ \A i \in activityStartTime..activityEndTime :
       i \in DOMAIN slots =>
         /\ ~(slots[i].peopleAvailable < activities[a].people_required)
         /\ ~(slots[i].totalRevealingness
                + activities[a].level_of_revealingness * RevDen
                > maximumSimultaniousRevealingness * RevDen)
  /\ \A k \in 1..Len(ordered) :
       ~(ordered[k] \in activities[ordered[k]].dependencies)

activityCanBeScheduled(a, slots, ordered, activityStartTime, activityEndTime, scheduledActivities, maximumSimultaniousRevealingness) ==
  /\ \A i \in activityStartTime..activityEndTime :
       i \in DOMAIN slots =>
         /\ ~(slots[i].peopleAvailable < activities[a].people_required)
         /\ ~(slots[i].totalRevealingness
                + activities[a].level_of_revealingness * RevDen
                > maximumSimultaniousRevealingness * RevDen)
  /\ \A k \in 1..Len(ordered) :
       ~(ordered[k] \in activities[ordered[k]].dependencies)
  /\ \A d \in activities[a].dependencies :
       \E k \in 1..Len(scheduledActivities) :
         /\ scheduledActivities[k].id = d
         /\ scheduledActivities[k].activityEndTime <= activityStartTime

\* ------------------------------------------------------------------------
\* scheduleActivities (risk-balanced): one pass of the while loop
\* ------------------------------------------------------------------------
\* lines 240-253: the ledger update over currentTimeSlot..activityEndTime
RECURSIVE UpdateTimeSlots(_, _, _, _)
UpdateTimeSlots(slots, a, i, activityEndTime) ==
  IF i > activityEndTime THEN slots
  ELSE
    LET old == IF i \in DOMAIN slots THEN slots[i]
               ELSE [peopleAvailable |-> totalPeople,
                     plannedActivityIds |-> <<a>>,
                     totalRevealingness |-> 0]
        new == [peopleAvailable |->
                  old.peopleAvailable - activities[a].people_required,
                totalRevealingness |->
                  old.totalRevealingness
                    + activities[a].level_of_revealingness * RevDen,
                plannedActivityIds |-> Append(old.plannedActivityIds, a)]
        slots2 == [j \in DOMAIN slots \cup {i} |->
                     IF j = i THEN new ELSE slots[j]]
    IN UpdateTimeSlots(slots2, a, i + 1, activityEndTime)

\* a forEach that places the activities but leaves their nodes in the graph
RECURSIVE ForEachOrderedKeepingNodes(_, _, _)
ForEachOrderedKeepingNodes(ordered, k, st) ==
  IF k > Len(ordered) THEN st
  ELSE
    LET a == ordered[k]
        activityStartTime == currentTimeSlot
        activityEndTime ==
          currentTimeSlot + Ceil(activities[a].expected_duration)
    IN IF activityCanBeScheduled(a, st.timeSlots, ordered, activityStartTime,
                                 activityEndTime, st.schedule,
                                 hardMaximumOfRevealingsness)
       THEN ForEachOrderedKeepingNodes(ordered, k + 1,
              [schedule |-> Append(st.schedule,
                              [id |-> a,
                               activityStartTime |-> activityStartTime,
                               activityEndTime |-> activityEndTime]),
               graph |-> st.graph,
               timeSlots |-> UpdateTimeSlots(st.timeSlots, a, currentTimeSlot,
                                             activityEndTime)])
       ELSE ForEachOrderedKeepingNodes(ordered, k + 1, st)

\* lines 215-257: orderedActivities.forEach
RECURSIVE ForEachOrdered(_, _, _)
ForEachOrdered(ordered, k, st) ==
  IF k > Len(ordered) THEN st
  ELSE
    LET a == ordered[k]
        activityStartTime == currentTimeSlot
        activityEndTime ==
          currentTimeSlot + Ceil(activities[a].expected_duration)
    IN IF activityCanBeScheduled(a, st.timeSlots, ordered, activityStartTime,
                                 activityEndTime, st.schedule,
                                 hardMaximumOfRevealingsness)
       THEN ForEachOrdered(ordered, k + 1,
              [schedule |-> Append(st.schedule,
                              [id |-> a,
                               activityStartTime |-> activityStartTime,
                               activityEndTime |-> activityEndTime]),
               graph |-> st.graph \ {a},
               timeSlots |-> UpdateTimeSlots(st.timeSlots, a, currentTimeSlot,
                                             activityEndTime)])
       ELSE ForEachOrdered(ordered, k + 1, st)

\* the current slot opened with the revealingness of the previous slot
\* carried over in full
OpenTimeSlotWithoutDecay(slots) ==
  LET cur == IF currentTimeSlot \in DOMAIN slots THEN slots[currentTimeSlot]
             ELSE [peopleAvailable |-> totalPeople,
                   totalRevealingness |-> 0,
                   plannedActivityIds |-> <<>>]
      carried ==
        IF (currentTimeSlot - 1) \in DOMAIN slots
        THEN cur.totalRevealingness
               + slots[currentTimeSlot - 1].totalRevealingness
        ELSE 0
  IN [j \in DOMAIN slots \cup {currentTimeSlot} |->
        IF j = currentTimeSlot
        THEN [cur EXCEPT !.totalRevealingness = carried]
        ELSE slots[j]]

\* lines 201-213: create the current slot and carry the decayed
\* revealingness of the previous slot into it ("|| 0" turns the NaN of a
\* missing previous slot into 0)
OpenTimeSlot(slots) ==
  LET cur == IF currentTimeSlot \in DOMAIN slots THEN slots[currentTimeSlot]
             ELSE [peopleAvailable |-> totalPeople,
                   totalRevealingness |-> 0,
                   plannedActivityIds |-> <<>>]
      carried ==
        IF (currentTimeSlot - 1) \in DOMAIN slots
        THEN cur.totalRevealingness
               + (slots[currentTimeSlot - 1].totalRevealingness
                    * revealingnessDecayRate) \div DecayDen
        ELSE 0
  IN [j \in DOMAIN slots \cup {currentTimeSlot} |->
        IF j = currentTimeSlot
        THEN [cur EXCEPT !.totalRevealingness = carried]
        ELSE slots[j]]

\* constructPriorityQueue throws: the run fails, nothing is returned
KartCycle ==
  /\ policy = "kart"
  /\ kartPc = "run"
  /\ \E ordered \in SortedActivitiesQueues(graph, weightOfRevealingness,
                                           weightOfResources) :
       CycleDetected(graph, ordered)
  /\ kartPc' = "cycle"
  /\ UNCHANGED <<simVars, inputVars, pertVars, graph, schedule, timeSlots, weightOfResources,
                 weightOfRevealingness, currentTimeSlot>>

\* orderedActivities.length === 0: break and return the schedule
KartReturn ==
  /\ policy = "kart"
  /\ kartPc = "run"
  /\ graph = {}
  /\ kartPc' = "returned"
  /\ UNCHANGED <<simVars, inputVars, pertVars, graph, schedule, timeSlots, weightOfResources,
                 weightOfRevealingness, currentTimeSlot>>

\* one time slot of the while loop
KartTimeSlot ==
  /\ policy = "kart"
  /\ kartPc = "run"
  /\ graph # {}
  /\ currentTimeSlot < MaxTimeSlot
  /\ \E ordered \in SortedActivitiesQueues(graph, weightOfRevealingness,
                                           weightOfResources) :
       /\ ~CycleDetected(graph, ordered)
       /\ LET st == ForEachOrdered(ordered, 1,
                      [schedule |-> schedule,
                       graph |-> graph,
                       timeSlots |-> OpenTimeSlot(timeSlots)])
          IN /\ schedule' = st.schedule
             /\ graph' = st.graph
             /\ timeSlots' = st.timeSlots
             /\ weightOfRevealingness' =
                  weightOfRevealingness
                    + (st.timeSlots[currentTimeSlot].totalRevealingness
                         - SoftMaximumOfRevealingness * RevDen)
  /\ weightOfResources' = weightOfResources - initialResourceWeight
  /\ currentTimeSlot' = currentTimeSlot + 1
  /\ UNCHANGED <<simVars, inputVars, pertVars, kartPc>>

\* lines 273-276: the totalCost of the returned object
scheduleActivitiesTotalCost == currentTimeSlot * DailyProjectCost

KartNext == KartCycle \/ KartReturn \/ KartTimeSlot

\* ------------------------------------------------------------------------
\* Earliest-feasible-start scheduler: topologicalSort
\* ------------------------------------------------------------------------
\* graph.nodes(): insertion order of buildGraph; setEdge(dep, id) inserts a
\* dependency that has no node yet
RECURSIVE AppendMissing(_, _, _)
AppendMissing(order, deps, k) ==
  IF k > Len(RowOrder) THEN order
  ELSE AppendMissing(
         IF RowOrder[k] \in deps /\ RowOrder[k] \notin Range(order)
         THEN Append(order, RowOrder[k]) ELSE order,
         deps, k + 1)

RECURSIVE GraphNodes(_, _)
GraphNodes(order, k) ==
  IF k > Len(RowOrder) THEN order
  ELSE IF RowOrder[k] \notin Nodes THEN GraphNodes(order, k + 1)
  ELSE LET withNode == IF RowOrder[k] \in Range(order) THEN order
                       ELSE Append(order, RowOrder[k])
       IN GraphNodes(
            AppendMissing(withNode, activities[RowOrder[k]].dependencies, 1),
            k + 1)

\* the members of S in the order of the sequence order
RECURSIVE InOrder(_, _, _)
InOrder(order, S, k) ==
  IF k > Len(order) THEN <<>>
  ELSE IF order[k] \in S THEN <<order[k]>> \o InOrder(order, S, k + 1)
  ELSE InOrder(order, S, k + 1)

\* graph.outEdges(node): targets in the order the edges were set, which is
\* the row order of the dependent activities
OutTargets(g, n) == InOrder(RowOrder, {e[2] : e \in OutEdges(g, n)}, 1)

RECURSIVE Relax(_, _, _, _)
Relax(targets, k, inDegree, queue) ==
  IF k > Len(targets) THEN [inDegree |-> inDegree, queue |-> queue]
  ELSE LET inD == [inDegree EXCEPT ![targets[k]] = @ - 1]
       IN Relax(targets, k + 1, inD,
                IF inD[targets[k]] = 0 THEN Append(queue, targets[k])
                ELSE queue)

RECURSIVE ShiftQueue(_, _, _, _)
ShiftQueue(g, queue, inDegree, acc) ==
  IF queue = <<>> THEN acc
  ELSE LET node == Head(queue)
           r == Relax(OutTargets(g, node), 1, inDegree, Tail(queue))
       IN ShiftQueue(g, r.queue, r.inDegree, Append(acc, node))

\* the sorted array built by topologicalSort, before its cycle test
topologicalSort(g) ==
  LET inDegree == [n \in g |-> Cardinality(InEdges(g, n))]
  IN ShiftQueue(g, InOrder(GraphNodes(<<>>, 1), {n \in g : inDegree[n] = 0}, 1),
                inDegree, <<>>)

\* ------------------------------------------------------------------------
\* Earliest-feasible-start scheduler: scheduleActivities
\* ------------------------------------------------------------------------
\* the values of t visited by "for (t = s; t < s + d; t++)", in 1/TimeDen
LoopKeys(s, d) == {s + k * TimeDen : k \in 0..(Ceil(d) - 1)}

PeopleUsed(slots, t) == IF t \in DOMAIN slots THEN slots[t].peopleUsed ELSE 0

canSchedule(slots, a, s) ==
  \A t \in LoopKeys(s, activities[a].expected_duration) :
    ~(PeopleUsed(slots, t) + activities[a].people_required > totalPeople)

\* an allocation that books the people of the span but not its cost
AllocateWithoutCost(slots, a, s) ==
  LET keys == LoopKeys(s, activities[a].expected_duration)
  IN [t \in DOMAIN slots \cup keys |->
        LET old == IF t \in DOMAIN slots THEN slots[t]
                   ELSE [peopleUsed |-> 0, cost |-> 0]
        IN IF t \in keys
           THEN [peopleUsed |-> old.peopleUsed + activities[a].people_required,
                 cost |-> old.cost]
           ELSE old]

Allocate(slots, a, s) ==
  LET keys == LoopKeys(s, activities[a].expected_duration)
  IN [t \in DOMAIN slots \cup keys |->
        LET old == IF t \in DOMAIN slots THEN slots[t]
                   ELSE [peopleUsed |-> 0, cost |-> 0]
        IN IF t \in keys
           THEN [peopleUsed |-> old.peopleUsed + activities[a].people_required,
                 cost |-> old.cost + activities[a].monetary_cost_per_day]
           ELSE old]

EndOf(sched, id) ==
  LET k == CHOOSE k \in 1..Len(sched) : sched[k].id = id IN sched[k].end

earliestStart(g, sched, n) ==
  SetMax({0} \cup {EndOf(sched, e[1]) : e \in InEdges(g, n)})

\* topologicalSort throws
PertCycle ==
  /\ policy = "pert"
  /\ pertPc = "sort"
  /\ Len(topologicalSort(graph)) # Cardinality(graph)
  /\ pertPc' = "cycle"
  /\ UNCHANGED <<simVars, inputVars, kartVars, criticalPath,
                 sorted, nodeIndex, start, pertTimeSlots,
                 pertSchedule>>

PertSorted ==
  /\ policy = "pert"
  /\ pertPc = "sort"
  /\ Len(topologicalSort(graph)) = Cardinality(graph)
  /\ sorted' = topologicalSort(graph)
  /\ nodeIndex' = 1
  /\ pertPc' = "node"
  /\ UNCHANGED <<simVars, inputVars, kartVars, criticalPath,
                 start, pertTimeSlots, pertSchedule>>

\* lines 100-111: next node of the for loop, start = earliestStart
PertNode ==
  /\ policy = "pert"
  /\ pertPc = "node"
  /\ nodeIndex <= Len(sorted)
  /\ start' = earliestStart(graph, pertSchedule, sorted[nodeIndex])
  /\ pertPc' = "probe"
  /\ UNCHANGED <<simVars, inputVars, kartVars, criticalPath,
                 sorted, nodeIndex, pertTimeSlots,
                 pertSchedule>>

\* lines 114-126: the slot is full somewhere in the span, delay the start
PertDelay ==
  /\ policy = "pert"
  /\ pertPc = "probe"
  /\ ~canSchedule(pertTimeSlots, sorted[nodeIndex], start)
  /\ start < MaxTimeSlot * TimeDen
  /\ start' = start + TimeDen
  /\ UNCHANGED <<simVars, inputVars, kartVars, criticalPath,
                 sorted, nodeIndex, pertTimeSlots,
                 pertSchedule, pertPc>>

\* lines 124-139: the span fits, allocate it and record the activity
PertAllocate ==
  /\ policy = "pert"
  /\ pertPc = "probe"
  /\ canSchedule(pertTimeSlots, sorted[nodeIndex], start)
  /\ pertTimeSlots' = Allocate(pertTimeSlots, sorted[nodeIndex], start)
  /\ pertSchedule' = Append(pertSchedule,
       [id |-> sorted[nodeIndex],
        start |-> start,
        end |-> start + activities[sorted[nodeIndex]].expected_duration])
  /\ nodeIndex' = nodeIndex + 1
  /\ pertPc' = "node"
  /\ UNCHANGED <<simVars, inputVars, kartVars, criticalPath,
                 sorted, start>>

PertReturn ==
  /\ policy = "pert"
  /\ pertPc = "node"
  /\ nodeIndex > Len(sorted)
  /\ pertPc' = "returned"
  /\ UNCHANGED <<simVars, inputVars, kartVars, criticalPath,
                 sorted, nodeIndex, start, pertTimeSlots,
                 pertSchedule>>

\* lines 141-147: every slot of the ledger adds projectCostPerDay and its
\* own cost
RECURSIVE earliestStartTotalCost(_)
earliestStartTotalCost(slots) ==
  IF DOMAIN slots = {} THEN 0
  ELSE LET timeslot == CHOOSE t \in DOMAIN slots : TRUE
       IN ProjectCostPerDay + slots[timeslot].cost
            + earliestStartTotalCost([t \in DOMAIN slots \ {timeslot} |-> slots[t]])

PertNext ==
  PertCycle \/ PertSorted \/ PertNode \/ PertDelay \/ PertAllocate \/ PertReturn

\* ------------------------------------------------------------------------
\* Look-ahead scheduler: scheduleActivities with a penalty on revealingness;
\* it sorts with the same topologicalSort and walks sorted the same way
\* ------------------------------------------------------------------------
\* lines 333-347: the penalty of the time units keys; a time unit without
\* a ledger slot reads reveilingnessSum from the default object, which has
\* no such key, and the comparison with NaN adds nothing
RECURSIVE penalty(_, _, _)
penalty(slots, a, keys) ==
  IF keys = {} THEN 0
  ELSE LET t == CHOOSE t \in keys : TRUE
           projectedRevealingness ==
             slots[t].reveilingnessSum + activities[a].level_of_revealingness
       IN (IF t \in DOMAIN slots
              /\ projectedRevealingness > ReveilingsnessThreshold
           THEN projectedRevealingness - ReveilingsnessThreshold ELSE 0)
            + penalty(slots, a, keys \ {t})

\* lines 327-354: the for loop over potentialStart; minPenalty = -1 stands
\* for Infinity
RECURSIVE bestStart(_, _, _, _, _, _)
bestStart(slots, a, potentialStart, limit, best, minPenalty) ==
  IF ~(potentialStart < limit) THEN best
  ELSE LET p == penalty(slots, a,
                        LoopKeys(potentialStart, activities[a].expected_duration))
           better == /\ canSchedule(slots, a, potentialStart)
                     /\ (minPenalty = -1 \/ p < minPenalty)
       IN IF better /\ p = 0 THEN potentialStart
          ELSE bestStart(slots, a, potentialStart + TimeDen, limit,
                         IF better THEN potentialStart ELSE best,
                         IF better THEN p ELSE minPenalty)

\* lines 359-367
LookAheadAllocate(slots, a, s) ==
  LET keys == LoopKeys(s, activities[a].expected_duration)
  IN [t \in DOMAIN slots \cup keys |->
        LET old == IF t \in DOMAIN slots THEN slots[t]
                   ELSE [peopleUsed |-> 0, cost |-> 0, reveilingnessSum |-> 0]
        IN IF t \in keys
           THEN [peopleUsed |-> old.peopleUsed + activities[a].people_required,
                 cost |-> old.cost + activities[a].monetary_cost_per_day,
                 reveilingnessSum |-> old.reveilingnessSum
                                        + activities[a].level_of_revealingness]
           ELSE old]

\* lines 316-372: one pass of the for loop over sorted
LookAheadPlace ==
  /\ policy = "pert"
  /\ pertPc = "node"
  /\ nodeIndex <= Len(sorted)
  /\ \E nodeId \in {sorted[nodeIndex]} :
       \E earliest \in {earliestStart(graph, pertSchedule, nodeId)} :
         \E s \in {bestStart(pertTimeSlots, nodeId, earliest,
                              earliest + LookAheadWindow * TimeDen, earliest, -1)} :
           /\ start' = s
           /\ pertTimeSlots' = LookAheadAllocate(pertTimeSlots, nodeId, s)
           /\ pertSchedule' = Append(pertSchedule,
                [id |-> nodeId,
                 start |-> s,
                 end |-> s + activities[nodeId].expected_duration])
  /\ nodeIndex' = nodeIndex + 1
  /\ UNCHANGED <<simVars, inputVars, kartVars, criticalPath,
                 sorted, pertPc>>

LookAheadNext == PertCycle \/ PertSorted \/ LookAheadPlace \/ PertReturn

\* ------------------------------------------------------------------------
\* Critical path: calculateCriticalPath, on the order of the same
\* topologicalSort; times in 1/TimeDen
\* ------------------------------------------------------------------------
RECURSIVE SetMin(_)
SetMin(S) ==
  LET x == CHOOSE y \in S : TRUE
  IN IF S = {x} THEN x
     ELSE LET m == SetMin(S \ {x}) IN IF x < m THEN x ELSE m

\* lines 95-118: the forward pass over topOrder
RECURSIVE forwardPass(_, _, _, _)
forwardPass(g, topOrder, i, earliest) ==
  IF i > Len(topOrder) THEN earliest
  ELSE LET node == topOrder[i]
           preds == {earliest[e[1]] + activities[e[1]].expected_duration
                       : e \in InEdges(g, node)}
           value == IF InEdges(g, node) = {} THEN 0 ELSE SetMax(preds)
       IN forwardPass(g, topOrder, i + 1,
                      [n \in DOMAIN earliest \cup {node} |->
                         IF n = node THEN value ELSE earliest[n]])

\* lines 130-132
projectDuration(topOrder, earliest) ==
  SetMax({earliest[topOrder[i]] + activities[topOrder[i]].expected_duration
            : i \in 1..Len(topOrder)})

\* lines 137-153: the backward pass, from the last node of topOrder
RECURSIVE backwardPass(_, _, _, _, _)
backwardPass(g, topOrder, i, duration, latest) ==
  IF i < 1 THEN latest
  ELSE LET node == topOrder[i]
           minSucc == {(IF e[2] \in DOMAIN latest THEN latest[e[2]]
                        ELSE duration)
                         - activities[e[2]].expected_duration
                         : e \in OutEdges(g, node)}
           value == IF OutEdges(g, node) = {}
                    THEN duration - activities[node].expected_duration
                    ELSE SetMin(minSucc)
       IN backwardPass(g, topOrder, i - 1, duration,
                       [n \in DOMAIN latest \cup {node} |->
                          IF n = node THEN value ELSE latest[n]])

\* lines 83-158: the object returned for the order topOrder
calculateCriticalPath(g, topOrder) ==
  LET earliest == forwardPass(g, topOrder, 1, <<>>)
      duration == projectDuration(topOrder, earliest)
      latest == backwardPass(g, topOrder, Len(topOrder), duration, <<>>)
  IN [path |-> SelectSeq(topOrder, LAMBDA id : earliest[id] = latest[id]),
      duration |-> duration]

CalculateCriticalPath ==
  /\ policy = "pert"
  /\ pertPc = "node"
  /\ criticalPath' = calculateCriticalPath(graph, sorted)
  /\ pertPc' = "critical"
  /\ UNCHANGED <<simVars, inputVars, kartVars, sorted, nodeIndex, start,
                 pertTimeSlots, pertSchedule>>

CriticalNext == PertCycle \/ PertSorted \/ CalculateCriticalPath

\* ------------------------------------------------------------------------
\* Monte Carlo simulator: runSimulation
\* ------------------------------------------------------------------------
calculateEffectiveChance(base, scale) == base * (SimDen + scale)

\* chanceValues[category] * (1 + globalRevealingness), times SimDen * SimDen;
\* a category without an entry gives NaN, which no draw is below
ChanceOf(category, scale) ==
  IF category \in DOMAIN ChanceValues
  THEN calculateEffectiveChance(ChanceValues[category], scale)
  ELSE 0

\* the possible values of "Math.random() < chance", Math.random() in [0, 1)
DrawOutcomes(chance) ==
  {b \in BOOLEAN : (b => chance > 0) /\ (~b => chance < SimDen * SimDen)}

\* Number.toFixed(3) of a value in 1/SimDen, in 1/1000
ToFixed3(x) == (x * 1000 + SimDen \div 2) \div SimDen

\* Math.round of a value in 1/TimeDen
Round(x) == (2 * x + TimeDen) \div (2 * TimeDen)

\* remove the entry at position i of a sequence (splice(i, 1))
Splice(s, i) == [k \in 1..(Len(s) - 1) |-> IF k < i THEN s[k] ELSE s[k + 1]]

\* resetState without the assignment to totalDelayDays
ResetStateKeepingDelayDays ==
  /\ availablePeople' = totalPeople
  /\ globalRevealingness' = 0
  /\ currentTime' = 0
  /\ currentDecayTime' = 0
  /\ totalCost' = 0
  /\ totalDelayDays' = totalDelayDays
  /\ blocked' = FALSE
  /\ failingActivity' = NoValue
  /\ unfinishedActivities' = <<>>
  /\ delays' = <<>>
  /\ peopleLost' = <<>>
  /\ done' = <<>>
  /\ inProgress' = <<>>

\* resetState
ResetState ==
  /\ availablePeople' = totalPeople
  /\ globalRevealingness' = 0
  /\ currentTime' = 0
  /\ currentDecayTime' = 0
  /\ totalCost' = 0
  /\ totalDelayDays' = 0
  /\ blocked' = FALSE
  /\ failingActivity' = NoValue
  /\ unfinishedActivities' = <<>>
  /\ delays' = <<>>
  /\ peopleLost' = <<>>
  /\ done' = <<>>
  /\ inProgress' = <<>>

\* applyRevealingnessDecay without the floor at 0
applyRevealingnessDecayUnfloored(st) ==
  LET daysPassed == st.currentTime - st.currentDecayTime
  IN IF daysPassed # 0
     THEN [st EXCEPT !.globalRevealingness = @ - decayFactor * daysPassed,
                     !.currentDecayTime = st.currentTime]
     ELSE st

\* applyRevealingnessDecay, on a record of the trial state
applyRevealingnessDecay(st) ==
  LET daysPassed == st.currentTime - st.currentDecayTime
      decayed == st.globalRevealingness - decayFactor * daysPassed
  IN IF daysPassed # 0
     THEN [st EXCEPT !.globalRevealingness = IF decayed < 0 THEN 0 ELSE decayed,
                     !.currentDecayTime = st.currentTime]
     ELSE st

\* activity.end ?? (activity.end = currentTime + activity.expected_duration)
EndOrSet(temp, id, now) ==
  IF temp[id].end # NoValue THEN temp
  ELSE [temp EXCEPT ![id].end = now * TimeDen + temp[id].expected_duration]

\* the activities checkFinishedActivities moves to done at time now
Finishing(st) ==
  {id \in Range(st.inProgress) :
     st.currentTime * TimeDen >= EndOrSet(st.tempSchedule, id, st.currentTime)[id].end}

\* the loss of a person without the floor at 0
PeopleAfterLossUnfloored(released) == released - 1

\* an attrition event that takes nobody from the pool
PeopleAfterLossKept(released) == released

\* availablePeople -= 1; if (availablePeople < 0) availablePeople = 0
PeopleAfterLoss(released) == IF released - 1 < 0 THEN 0 ELSE released - 1

\* checkFinishedActivities with one day added to totalDelayDays per delay
\* event
RECURSIVE checkFinishedActivitiesCountingDelays(_, _, _)
checkFinishedActivitiesCountingDelays(st, i, outcome) ==
  IF i < 1 THEN st
  ELSE
    LET id == st.inProgress[i]
        temp == EndOrSet(st.tempSchedule, id, st.currentTime)
        activity == temp[id]
    IN IF st.currentTime * TimeDen >= activity.end
       THEN
         LET released == st.availablePeople + activity.people_required
             delay == outcome[id][1]
             loss == outcome[id][2]
             event == [activity |-> activity.id,
                       revealingnessFactor |-> ToFixed3(st.globalRevealingness)]
             lost == PeopleAfterLoss(released)
         IN checkFinishedActivitiesCountingDelays(
              [st EXCEPT
                 !.tempSchedule = temp,
                 !.done = Append(st.done, id),
                 !.inProgress = Splice(st.inProgress, i),
                 !.availablePeople = IF loss THEN lost ELSE released,
                 !.totalDelayDays = IF delay THEN @ + 1 ELSE @,
                 !.totalCost =
                    IF delay
                    THEN @ + activity.weight_of_delays
                               * activity.monetary_cost_per_day
                               * activity.people_required * TimeDen
                    ELSE @,
                 !.delays = IF delay THEN Append(@, event) ELSE @,
                 !.peopleLost = IF loss THEN Append(@, event) ELSE @,
                 !.drawn = @ \o <<delay, loss>>],
              i - 1, outcome)
       ELSE checkFinishedActivitiesCountingDelays([st EXCEPT !.tempSchedule = temp],
                                    i - 1, outcome)

\* checkFinishedActivities: positions i..1 of inProgress; outcome[id] holds
\* the results of the two draws made when id finishes
RECURSIVE checkFinishedActivities(_, _, _)
checkFinishedActivities(st, i, outcome) ==
  IF i < 1 THEN st
  ELSE
    LET id == st.inProgress[i]
        temp == EndOrSet(st.tempSchedule, id, st.currentTime)
        activity == temp[id]
    IN IF st.currentTime * TimeDen >= activity.end
       THEN
         LET released == st.availablePeople + activity.people_required
             delay == outcome[id][1]
             loss == outcome[id][2]
             event == [activity |-> activity.id,
                       revealingnessFactor |-> ToFixed3(st.globalRevealingness)]
             lost == PeopleAfterLoss(released)
         IN checkFinishedActivities(
              [st EXCEPT
                 !.tempSchedule = temp,
                 !.done = Append(st.done, id),
                 !.inProgress = Splice(st.inProgress, i),
                 !.availablePeople = IF loss THEN lost ELSE released,
                 !.totalDelayDays =
                    IF delay THEN @ + activity.weight_of_delays ELSE @,
                 !.totalCost =
                    IF delay
                    THEN @ + activity.weight_of_delays
                               * activity.monetary_cost_per_day
                               * activity.people_required * TimeDen
                    ELSE @,
                 !.delays = IF delay THEN Append(@, event) ELSE @,
                 !.peopleLost = IF loss THEN Append(@, event) ELSE @,
                 !.drawn = @ \o <<delay, loss>>],
              i - 1, outcome)
       ELSE checkFinishedActivities([st EXCEPT !.tempSchedule = temp],
                                    i - 1, outcome)

\* activity.dependencies.every((id) => done.some((d) => d.id === id))
dependenciesMet(activity, doneList, temp) ==
  \A id \in activity.dependencies :
    \E k \in 1..Len(doneList) : temp[doneList[k]].id = id

\* the start condition without the comparison with availablePeople
canStartIgnoringPeople(st, activity) ==
  /\ activity.start <= st.currentTime
  /\ dependenciesMet(activity, st.done, st.tempSchedule)

\* the start condition without the comparison of start with currentTime
canStartBeforeStart(st, activity) ==
  /\ dependenciesMet(activity, st.done, st.tempSchedule)
  /\ st.availablePeople >= activity.people_required

\* the condition under which startEligibleActivities starts an activity
canStart(st, activity) ==
  /\ activity.start <= st.currentTime
  /\ dependenciesMet(activity, st.done, st.tempSchedule)
  /\ st.availablePeople >= activity.people_required

\* startEligibleActivities: positions i..1 of toDo
RECURSIVE startEligibleActivities(_, _)
startEligibleActivities(st, i) ==
  IF i < 1 THEN st
  ELSE
    LET id == st.toDo[i]
        activity == st.tempSchedule[id]
    IN IF canStart(st, activity)
       THEN
         LET revealAdd ==
               IF activity.level_of_revealingness \in DOMAIN RevealingnessValues
               THEN RevealingnessValues[activity.level_of_revealingness]
               ELSE 0
         IN startEligibleActivities(
              [st EXCEPT
                 !.globalRevealingness = @ + revealAdd,
                 !.totalCost = @ + activity.expected_duration
                                     * activity.monetary_cost_per_day
                                     * activity.people_required,
                 !.availablePeople = @ - activity.people_required,
                 !.inProgress = Append(@, id),
                 !.toDo = Splice(st.toDo, i),
                 !.startedAt = [@ EXCEPT ![id] = st.currentTime]],
              i - 1)
       ELSE startEligibleActivities(st, i - 1)

\* simulateStep with startEligibleActivities called before
\* checkFinishedActivities
simulateStepStartingFirst(st, outcome) ==
  LET decayed == applyRevealingnessDecay(st)
      started == startEligibleActivities(decayed, Len(decayed.toDo))
      finished == checkFinishedActivities(started, Len(started.inProgress),
                                          outcome)
  IN [finished EXCEPT !.currentTime = @ + 1]

\* simulateStep
simulateStep(st, outcome) ==
  LET decayed == applyRevealingnessDecay(st)
      finished == checkFinishedActivities(decayed, Len(decayed.inProgress),
                                          outcome)
      started == startEligibleActivities(finished, Len(finished.toDo))
  IN [started EXCEPT !.currentTime = @ + 1]

\* checkIfBlocked: readyActivities, and whether it sets blocked
readyActivities ==
  SelectSeq(toDo,
            LAMBDA id : /\ tempSchedule[id].start <= currentTime
                        /\ dependenciesMet(tempSchedule[id], done, tempSchedule))

\* checkIfBlocked without its test of inProgress
checkIfBlockedWhileInProgress ==
  LET anyCanStart ==
        \E k \in 1..Len(readyActivities) :
          tempSchedule[readyActivities[k]].people_required <= availablePeople
  IN ~anyCanStart /\ Len(readyActivities) > 0

checkIfBlocked ==
  LET anyCanStart ==
        \E k \in 1..Len(readyActivities) :
          tempSchedule[readyActivities[k]].people_required <= availablePeople
  IN ~anyCanStart /\ Len(readyActivities) > 0 /\ Len(inProgress) = 0

TrialState ==
  [availablePeople |-> availablePeople,
   globalRevealingness |-> globalRevealingness,
   currentTime |-> currentTime,
   currentDecayTime |-> currentDecayTime,
   totalCost |-> totalCost,
   totalDelayDays |-> totalDelayDays,
   delays |-> delays,
   peopleLost |-> peopleLost,
   done |-> done,
   inProgress |-> inProgress,
   toDo |-> toDo,
   tempSchedule |-> tempSchedule,
   drawn |-> drawn,
   startedAt |-> startedAt]

\* printFinalResult without the addition of the base cost of the elapsed days
printFinalResultWithoutOverhead ==
  LET totalProjectDuration == currentTime
      cost == totalCost
  IN [totalCost |-> Round(cost),
      totalDelayDays |-> totalDelayDays,
      peopleLeft |-> availablePeople,
      delays |-> delays,
      peopleLost |-> peopleLost,
      finishedActivities |-> [k \in 1..Len(done) |-> tempSchedule[done[k]].id],
      projectFinished |-> projectFinished,
      unfinishedActivities |-> unfinishedActivities,
      failingActivity |-> IF failingActivity = NoValue THEN NoValue
                          ELSE tempSchedule[failingActivity],
      totalProjectDuration |-> totalProjectDuration,
      total |-> CompletionReward * TimeDen - cost]

\* printFinalResult
printFinalResult ==
  LET totalProjectDuration == currentTime
      cost == totalCost + totalProjectDuration * BaseCostPerDay * TimeDen
  IN [totalCost |-> Round(cost),
      totalDelayDays |-> totalDelayDays,
      peopleLeft |-> availablePeople,
      delays |-> delays,
      peopleLost |-> peopleLost,
      finishedActivities |-> [k \in 1..Len(done) |-> tempSchedule[done[k]].id],
      projectFinished |-> projectFinished,
      unfinishedActivities |-> unfinishedActivities,
      failingActivity |-> IF failingActivity = NoValue THEN NoValue
                          ELSE tempSchedule[failingActivity],
      totalProjectDuration |-> totalProjectDuration,
      total |-> CompletionReward * TimeDen - cost]

\* the results written one after the other without a separator
JoinWithoutSeparators(rs) == rs

\* results.map(JSON.stringify).join(",\n"), as a sequence of results and
\* separators
RECURSIVE Join(_)
Join(rs) ==
  IF Len(rs) = 0 THEN <<>>
  ELSE IF Len(rs) = 1 THEN <<rs[1]>>
  ELSE <<rs[1], ",">> \o Join(Tail(rs))

\* a loop that tests its condition only after the first pass
WorkLeftAfterFirstPass ==
  Len(toDo) > 0 \/ Len(inProgress) > 0 \/ currentTime = 0

\* a loop that ends as soon as toDo is empty
WorkLeftInToDo ==
  Len(toDo) > 0

\* line 246: the condition of the while loop of simulateProject
WorkLeft ==
  Len(toDo) > 0 \/ Len(inProgress) > 0

\* lines 298-299: resetState and the copy of the schedule for a new trial
SimReset ==
  /\ simPc = "trial"
  /\ loopIndex < amountOfLoops
  /\ ResetState
  /\ tempSchedule' = simSchedule
  /\ toDo' = [k \in 1..Len(simSchedule) |-> k]
  /\ drawn' = <<>>
  /\ startedAt' = [row \in DOMAIN simSchedule |-> NoValue]
  /\ simPc' = "loop"
  /\ UNCHANGED <<schedVars, simInputVars, batchVars, projectFinished>>

\* lines 247-253: one pass of the while loop of simulateProject that is not
\* blocked
SimStep ==
  /\ simPc = "loop"
  /\ WorkLeft
  /\ ~checkIfBlocked
  /\ currentTime < MaxTime
  /\ LET decayed == applyRevealingnessDecay(TrialState)
     IN \E outcome \in [DOMAIN tempSchedule -> BOOLEAN \X BOOLEAN] :
          /\ \A id \in DOMAIN tempSchedule :
               IF id \in Finishing(decayed)
               THEN /\ outcome[id][1] \in DrawOutcomes(
                         ChanceOf(tempSchedule[id].chance_of_delays,
                                  decayed.globalRevealingness))
                    /\ outcome[id][2] \in DrawOutcomes(
                         ChanceOf(tempSchedule[id].chance_of_losing_people,
                                  decayed.globalRevealingness))
               ELSE outcome[id] = <<FALSE, FALSE>>
          /\ LET st == simulateStep(TrialState, outcome)
             IN /\ availablePeople' = st.availablePeople
                /\ globalRevealingness' = st.globalRevealingness
                /\ currentTime' = st.currentTime
                /\ currentDecayTime' = st.currentDecayTime
                /\ totalCost' = st.totalCost
                /\ totalDelayDays' = st.totalDelayDays
                /\ delays' = st.delays
                /\ peopleLost' = st.peopleLost
                /\ done' = st.done
                /\ inProgress' = st.inProgress
                /\ toDo' = st.toDo
                /\ tempSchedule' = st.tempSchedule
                /\ drawn' = st.drawn
                /\ startedAt' = st.startedAt
  /\ UNCHANGED <<schedVars, simInputVars, batchVars, simPc, blocked,
                 failingActivity, unfinishedActivities, projectFinished>>

\* lines 248-252: checkIfBlocked sets blocked, simulateProject returns false
SimBlocked ==
  /\ simPc = "loop"
  /\ WorkLeft
  /\ checkIfBlocked
  /\ blocked' = TRUE
  /\ failingActivity' = readyActivities[1]
  /\ unfinishedActivities' =
       unfinishedActivities \o [k \in 1..Len(toDo) |-> tempSchedule[toDo[k]].id]
  /\ projectFinished' = FALSE
  /\ simPc' = "print"
  /\ UNCHANGED <<schedVars, simInputVars, batchVars, availablePeople,
                 globalRevealingness, currentTime, currentDecayTime, totalCost,
                 totalDelayDays, delays, peopleLost, done, inProgress, toDo,
                 tempSchedule, drawn,
                 startedAt>>

\* line 255: the while loop ends, simulateProject returns true
SimFinished ==
  /\ simPc = "loop"
  /\ ~WorkLeft
  /\ projectFinished' = TRUE
  /\ simPc' = "print"
  /\ UNCHANGED <<schedVars, simInputVars, batchVars, availablePeople,
                 globalRevealingness, currentTime, currentDecayTime, totalCost,
                 totalDelayDays, blocked, failingActivity, unfinishedActivities,
                 delays, peopleLost, done, inProgress, toDo, tempSchedule,
                 drawn,
                 startedAt>>

\* lines 301-311: printFinalResult, results.push and the flush of a batch
SimPrint ==
  /\ simPc = "print"
  /\ LET result == printFinalResult
         pushed == Append(results, result)
         isLastBatch == loopIndex = amountOfLoops - 1
     IN /\ totalCost' = totalCost + currentTime * BaseCostPerDay * TimeDen
        /\ trialLog' = Append(trialLog, [drawn |-> drawn, result |-> result])
        /\ IF Len(pushed) = batchSize \/ isLastBatch
           THEN /\ outputFile' = outputFile \o Join(pushed)
                                   \o (IF isLastBatch THEN <<>> ELSE <<",">>)
                /\ results' = <<>>
           ELSE /\ results' = pushed
                /\ outputFile' = outputFile
  /\ loopIndex' = loopIndex + 1
  /\ simPc' = "trial"
  /\ UNCHANGED <<schedVars, simInputVars, availablePeople, globalRevealingness,
                 currentTime, currentDecayTime, totalDelayDays, blocked,
                 failingActivity, unfinishedActivities, delays, peopleLost,
                 done, inProgress, toDo, tempSchedule, projectFinished, drawn,
                 startedAt>>

\* line 314: the closing bracket
SimClose ==
  /\ simPc = "trial"
  /\ ~(loopIndex < amountOfLoops)
  /\ outputFile' = Append(outputFile, "]")
  /\ simPc' = "end"
  /\ UNCHANGED <<schedVars, simInputVars, trialVars, results, loopIndex,
                 trialLog>>

SimNext ==
  SimReset \/ SimStep \/ SimBlocked \/ SimFinished \/ SimPrint \/ SimClose

\* ------------------------------------------------------------------------
\* Schedule_runner.js: the script version of the simulator.  Its
\* globalRevealingness is kept in 1/RunnerDen; failingActivity is
\* RunnerUndefined, a reference to the object at a row of the current
\* tempSchedule, or an object of the tempSchedule of an earlier trial
\* ------------------------------------------------------------------------
RunnerUndefined == [kind |-> "undefined"]
RunnerRow(r) == [kind |-> "row", row |-> r]
RunnerStale(o) == [kind |-> "object", object |-> o]

RunnerScale == Pow(10, MaxRunnerTime)
RunnerDen == 40 * RunnerScale

\* REVEALINGNESS_VALUES in 1/40, CHANCE_VALUES in 1/1000
RunnerRevealingnessValues == [c \in 1..5 |-> <<2, 3, 4, 6, 8>>[c]]
RunnerChanceValues == [c \in 1..5 |-> <<50, 100, 150, 225, 300>>[c]]

\* the possible values of "Math.random() < calculateEffectiveChance(
\* CHANCE_VALUES[category], globalRevealingness)"
RunnerDrawOutcomes(category, scale) ==
  LET known == category \in DOMAIN RunnerChanceValues
      chance == IF known THEN RunnerChanceValues[category] * (RunnerDen + scale)
                ELSE 0
  IN {b \in BOOLEAN : (b => chance > 0) /\ (~b => chance \div 1000 < RunnerDen)}

\* globalRevealingness * decayFactor ** amountOfDaysPassed
RECURSIVE RunnerDecay(_, _)
RunnerDecay(g, days) ==
  IF days <= 0 THEN g ELSE RunnerDecay((g \div 10) * RunnerDecayFactor, days - 1)

\* Number.toFixed(3) of a value in 1/RunnerDen, in 1/1000
RunnerToFixed3(g) == (g * 50 + RunnerScale) \div (2 * RunnerScale)

\* applyPossibleRevealingnessDecay
applyPossibleRevealingnessDecay(st) ==
  LET amountOfDaysPassed == st.currentTime - st.currentDecayTime
  IN [st EXCEPT !.currentDecayTime = st.currentTime,
                !.globalRevealingness = RunnerDecay(@, amountOfDaysPassed)]

\* currentTime >= activity.end, false when end is undefined
RunnerEnded(activity, now) ==
  activity.end # NoValue /\ now * TimeDen >= activity.end

RunnerFinishing(st) ==
  {id \in Range(st.inProgress) :
     RunnerEnded(st.tempSchedule[id], st.currentTime)}

\* checkFinishedActivities of Schedule_runner.js: positions i..1 of
\* inProgress
RECURSIVE runnerCheckFinishedActivities(_, _, _)
runnerCheckFinishedActivities(st, i, outcome) ==
  IF i < 1 THEN st
  ELSE
    LET id == st.inProgress[i]
        activity == st.tempSchedule[id]
    IN IF RunnerEnded(activity, st.currentTime)
       THEN
         LET decayed == applyPossibleRevealingnessDecay(st)
             released == st.availablePeople + activity.people_required
             delay == outcome[id][1]
             loss == outcome[id][2]
             event == [activity |-> activity.id,
                       revealingnessFactor |->
                         RunnerToFixed3(decayed.globalRevealingness)]
             lost == IF released - activity.weight_of_losing_people < 0 THEN 0
                     ELSE released - activity.weight_of_losing_people
         IN runnerCheckFinishedActivities(
              [decayed EXCEPT
                 !.done = Append(st.done, id),
                 !.inProgress = Splice(st.inProgress, i),
                 !.availablePeople = IF loss THEN lost ELSE released,
                 !.totalDelayDays =
                    IF delay THEN @ + activity.weight_of_delays ELSE @,
                 !.totalCost =
                    IF delay
                    THEN @ + activity.weight_of_delays
                               * activity.monetary_cost_per_day
                               * activity.people_required * TimeDen
                    ELSE @,
                 !.delays = IF delay THEN Append(@, event) ELSE @,
                 !.peopleLost = IF loss THEN Append(@, event) ELSE @,
                 !.drawn = @ \o <<delay, loss>>],
              i - 1, outcome)
       ELSE runnerCheckFinishedActivities(st, i - 1, outcome)

\* startEligibleActivities of Schedule_runner.js: positions i..1 of toDo
RECURSIVE runnerStartEligibleActivities(_, _)
runnerStartEligibleActivities(st, i) ==
  IF i < 1 THEN st
  ELSE
    LET id == st.toDo[i]
        activity == st.tempSchedule[id]
    IN IF /\ activity.start <= st.currentTime
          /\ dependenciesMet(activity, st.done, st.tempSchedule)
          /\ st.availablePeople >= activity.people_required
       THEN
         LET revealAdd ==
               IF activity.level_of_revealingness
                    \in DOMAIN RunnerRevealingnessValues
               THEN RunnerRevealingnessValues[activity.level_of_revealingness]
                      * RunnerScale
               ELSE 0
         IN runnerStartEligibleActivities(
              [st EXCEPT
                 !.globalRevealingness = @ + revealAdd,
                 !.totalCost = @ + activity.expected_duration
                                     * activity.monetary_cost_per_day
                                     * activity.people_required,
                 !.availablePeople = @ - activity.people_required,
                 !.inProgress = Append(@, id),
                 !.toDo = Splice(st.toDo, i),
                 !.startedAt = [@ EXCEPT ![id] = st.currentTime]],
              i - 1)
       ELSE runnerStartEligibleActivities(st, i - 1)

\* simulateStep of Schedule_runner.js
runnerSimulateStep(st, outcome) ==
  LET finished == runnerCheckFinishedActivities(st, Len(st.inProgress), outcome)
      started == runnerStartEligibleActivities(finished, Len(finished.toDo))
  IN [started EXCEPT !.currentTime = @ + 1]

\* lines 146-157: the callback of toDo.every returns undefined, so every
\* stops after toDo[0]; the callback sets blocked and failingActivity when
\* its condition holds for that element
RunnerBlocked ==
  /\ Len(toDo) > 0
  /\ LET a == tempSchedule[toDo[1]]
     IN \/ a.start > currentTime
        \/ a.people_required > availablePeople
        \/ ~(\A depId \in a.dependencies :
               \/ \E k \in 1..Len(done) : tempSchedule[done[k]].id = depId
               \/ Len(inProgress) = 0)

\* the object failingActivity refers to, as JSON.stringify writes it
RunnerObject(temp, finishedList, row) ==
  [activity |-> temp[row], revealDecay |-> row \in Range(finishedList)]

\* printFinalResult of Schedule_runner.js
runnerPrintFinalResult ==
  LET totalProjectDuration == currentTime
      cost == totalCost + totalProjectDuration * RunnerBaseCostPerDay * TimeDen
  IN [totalCost |-> Round(cost),
      totalDelayDays |-> totalDelayDays,
      peopleLeft |-> availablePeople,
      delays |-> delays,
      peopleLost |-> peopleLost,
      finishedActivities |-> [k \in 1..Len(done) |-> tempSchedule[done[k]].id],
      projectFinished |-> projectFinished,
      unfinishedActivities |-> unfinishedActivities,
      failingActivity |->
        IF failingActivity.kind = "row"
        THEN RunnerObject(tempSchedule, done, failingActivity.row)
        ELSE IF failingActivity.kind = "object" THEN failingActivity.object
        ELSE RunnerUndefined,
      totalProjectDuration |-> totalProjectDuration,
      total |-> RunnerCompletionReward * TimeDen - cost]

\* lines 230-243: the copy of the schedule and the assignments that start a
\* trial; failingActivity is not among them and keeps the object of the
\* trial before
RunnerReset ==
  /\ simPc = "trial"
  /\ loopIndex < amountOfLoops
  /\ tempSchedule' = simSchedule
  /\ toDo' = [k \in 1..Len(simSchedule) |-> k]
  /\ availablePeople' = totalPeople
  /\ globalRevealingness' = 0
  /\ currentTime' = 0
  /\ currentDecayTime' = 0
  /\ totalCost' = 0
  /\ totalDelayDays' = 0
  /\ delays' = <<>>
  /\ peopleLost' = <<>>
  /\ done' = <<>>
  /\ inProgress' = <<>>
  /\ unfinishedActivities' = <<>>
  /\ failingActivity' =
       IF failingActivity.kind = "row"
       THEN RunnerStale(RunnerObject(tempSchedule, done, failingActivity.row))
       ELSE failingActivity
  /\ drawn' = <<>>
  /\ startedAt' = [row \in DOMAIN simSchedule |-> NoValue]
  /\ simPc' = "loop"
  /\ UNCHANGED <<schedVars, simInputVars, batchVars, blocked, projectFinished>>

\* lines 145-174: one pass of the while loop that does not return
RunnerStep ==
  /\ simPc = "loop"
  /\ Len(toDo) > 0 \/ Len(inProgress) > 0
  /\ ~(RunnerBlocked /\ Len(inProgress) = 0)
  /\ currentTime < MaxRunnerTime
  /\ failingActivity' = IF RunnerBlocked THEN RunnerRow(toDo[1])
                        ELSE failingActivity
  /\ \E outcome \in [DOMAIN tempSchedule -> BOOLEAN \X BOOLEAN] :
       /\ \A id \in DOMAIN tempSchedule :
            IF id \in RunnerFinishing(TrialState)
            THEN LET g == applyPossibleRevealingnessDecay(TrialState)
                            .globalRevealingness
                 IN /\ outcome[id][1] \in RunnerDrawOutcomes(
                         tempSchedule[id].chance_of_delays, g)
                    /\ outcome[id][2] \in RunnerDrawOutcomes(
                         tempSchedule[id].chance_of_losing_people, g)
            ELSE outcome[id] = <<FALSE, FALSE>>
       /\ LET st == runnerSimulateStep(TrialState, outcome)
          IN /\ availablePeople' = st.availablePeople
             /\ globalRevealingness' = st.globalRevealingness
             /\ currentTime' = st.currentTime
             /\ currentDecayTime' = st.currentDecayTime
             /\ totalCost' = st.totalCost
             /\ totalDelayDays' = st.totalDelayDays
             /\ delays' = st.delays
             /\ peopleLost' = st.peopleLost
             /\ done' = st.done
             /\ inProgress' = st.inProgress
             /\ toDo' = st.toDo
             /\ tempSchedule' = st.tempSchedule
             /\ drawn' = st.drawn
             /\ startedAt' = st.startedAt
  /\ UNCHANGED <<schedVars, simInputVars, batchVars, simPc, blocked,
                 unfinishedActivities, projectFinished>>

\* lines 159-172: blocked with nothing in progress, simulateProject returns
\* false; the callback that pushes to unfinishedActivities returns
\* undefined too, so only the id of toDo[0] is pushed
RunnerDeadlock ==
  /\ simPc = "loop"
  /\ Len(toDo) > 0 \/ Len(inProgress) > 0
  /\ RunnerBlocked /\ Len(inProgress) = 0
  /\ failingActivity' = RunnerRow(toDo[1])
  /\ unfinishedActivities' =
       Append(unfinishedActivities, tempSchedule[toDo[1]].id)
  /\ projectFinished' = FALSE
  /\ simPc' = "print"
  /\ UNCHANGED <<schedVars, simInputVars, batchVars, availablePeople,
                 globalRevealingness, currentTime, currentDecayTime, totalCost,
                 totalDelayDays, blocked, delays, peopleLost, done, inProgress,
                 toDo, tempSchedule, drawn,
                 startedAt>>

\* line 176: the while loop ends, simulateProject returns true
RunnerFinished ==
  /\ simPc = "loop"
  /\ ~(Len(toDo) > 0 \/ Len(inProgress) > 0)
  /\ projectFinished' = TRUE
  /\ simPc' = "print"
  /\ UNCHANGED <<schedVars, simInputVars, batchVars, availablePeople,
                 globalRevealingness, currentTime, currentDecayTime, totalCost,
                 totalDelayDays, blocked, failingActivity, unfinishedActivities,
                 delays, peopleLost, done, inProgress, toDo, tempSchedule,
                 drawn,
                 startedAt>>

\* lines 245-254: printFinalResult, results.push and the flush of a batch;
\* the trial log also keeps whether failingActivity was an object of an
\* earlier trial
RunnerPrint ==
  /\ simPc = "print"
  /\ LET result == runnerPrintFinalResult
         pushed == Append(results, result)
         isLastBatch == loopIndex = amountOfLoops - 1
     IN /\ totalCost' = totalCost + currentTime * RunnerBaseCostPerDay * TimeDen
        /\ trialLog' = Append(trialLog,
             [drawn |-> drawn, result |-> result,
              stale |-> failingActivity.kind = "object"])
        /\ IF Len(pushed) = batchSize \/ isLastBatch
           THEN /\ outputFile' = outputFile \o Join(pushed)
                                   \o (IF isLastBatch THEN <<>> ELSE <<",">>)
                /\ results' = <<>>
           ELSE /\ results' = pushed
                /\ outputFile' = outputFile
  /\ loopIndex' = loopIndex + 1
  /\ simPc' = "trial"
  /\ UNCHANGED <<schedVars, simInputVars, availablePeople, globalRevealingness,
                 currentTime, currentDecayTime, totalDelayDays, blocked,
                 failingActivity, unfinishedActivities, delays, peopleLost,
                 done, inProgress, toDo, tempSchedule, projectFinished, drawn,
                 startedAt>>

RunnerNext ==
  \/ RunnerReset \/ RunnerStep \/ RunnerDeadlock \/ RunnerFinished
  \/ RunnerPrint \/ SimClose

\* ------------------------------------------------------------------------
\* utility.ts: calculateDependencies, calculateActivities and buildGraph on
\* the rows of a CSV file, which may repeat a wbs_code
\* ------------------------------------------------------------------------
\* the label of a node that setEdge created
NoLabel == [id |-> "undefined"]

\* dependencies[row.wbs_code] = deps for every row in turn: the last row of
\* a wbs_code decides
calculateDependencies(rs) ==
  [code \in {rs[k].wbs_code : k \in 1..Len(rs)} |->
     LET last == CHOOSE k \in 1..Len(rs) :
                   /\ rs[k].wbs_code = code
                   /\ \A j \in (k + 1)..Len(rs) : rs[j].wbs_code # code
     IN rs[last].predecessor]

\* A number of the program is a binary floating-point value: here a
\* multiple of 2^-FractionBits with at most MantissaBits significant bits.
\* Quantum(n, d, q): the spacing of such values around n / d
RECURSIVE Quantum(_, _, _)
Quantum(n, d, q) ==
  IF n < Pow(2, MantissaBits) * d * q THEN q ELSE Quantum(n, d, 2 * q)

\* the floating-point value nearest to n / d, ties to the even mantissa
RoundToFloat(n, d) ==
  LET q == Quantum(n, d, 1)
      floor == n \div (d * q)
      twiceRest == 2 * (n - floor * d * q)
      up == twiceRest > d * q \/ (twiceRest = d * q /\ floor % 2 = 1)
  IN (IF up THEN floor + 1 ELSE floor) * q

\* parseFloat of a decimal with one digit after the point, given in tenths
ParseFloat(tenths) == RoundToFloat(tenths * Pow(2, FractionBits), 10)

\* (o + 4 * m + p) / 6, every operation rounded to a floating-point value;
\* 4 * m is exact
calculateExpectedDuration(o, m, p) ==
  RoundToFloat(RoundToFloat(RoundToFloat(o + 4 * m, 1) + p, 1), 6)

\* rows.map(row => ({ id: row.wbs_code, ..., dependencies }))
calculateActivities(rs, dependencies) ==
  [k \in 1..Len(rs) |->
     [id |-> rs[k].wbs_code,
      optimistic_duration |-> ParseFloat(rs[k].optimistic_duration),
      likely_duration |-> ParseFloat(rs[k].likely_duration),
      pessimistic_duration |-> ParseFloat(rs[k].pessimistic_duration),
      expected_duration |->
        calculateExpectedDuration(ParseFloat(rs[k].optimistic_duration),
                                  ParseFloat(rs[k].likely_duration),
                                  ParseFloat(rs[k].pessimistic_duration)),
      people_required |-> rs[k].people_required,
      dependencies |-> dependencies[rs[k].wbs_code]]]

\* graphlib setNode(v, value): a new node is appended to the node order, an
\* existing node keeps its place and takes the new label
setNode(g, v, value) ==
  [g EXCEPT !.order = IF v \in Range(g.order) THEN @ ELSE Append(@, v),
            !.label = [n \in DOMAIN g.label \cup {v} |->
                         IF n = v THEN value ELSE g.label[n]]]

\* graphlib setEdge(v, w): creates the nodes that are missing, without label
RECURSIVE setEdges(_, _, _)
setEdges(g, deps, w) ==
  IF deps = <<>> THEN g
  ELSE
    LET v == Head(deps)
        withV == IF v \in Range(g.order) THEN g ELSE setNode(g, v, NoLabel)
        withW == IF w \in Range(withV.order) THEN withV
                 ELSE setNode(withV, w, NoLabel)
    IN setEdges([withW EXCEPT !.edges = @ \cup {<<v, w>>}], Tail(deps), w)

\* the Activity[] that buildGraph is called with
BuildActivities == calculateActivities(rows, calculateDependencies(rows))

\* lines 72-74: const g = new Graph()
BuildStart ==
  /\ buildPc = "idle"
  /\ builtGraph' = [order |-> <<>>, label |-> <<>>, edges |-> {}]
  /\ buildIndex' = 1
  /\ buildPc' = "forEach"
  /\ UNCHANGED <<simVars, kartVars, pertVars, activities, totalPeople,
                 initialResourceWeight, policy, hardMaximumOfRevealingsness,
                 revealingnessDecayRate, startRevealingness, rows>>

\* lines 74-84: one activity of activities.forEach
BuildAddActivity ==
  /\ buildPc = "forEach"
  /\ buildIndex <= Len(rows)
  /\ LET act == BuildActivities[buildIndex]
     IN builtGraph' = setEdges(setNode(builtGraph, act.id, act),
                               act.dependencies, act.id)
  /\ buildIndex' = buildIndex + 1
  /\ UNCHANGED <<simVars, kartVars, pertVars, activities, totalPeople,
                 initialResourceWeight, policy, hardMaximumOfRevealingsness,
                 revealingnessDecayRate, startRevealingness, rows, buildPc>>

\* line 90: return g
BuildReturn ==
  /\ buildPc = "forEach"
  /\ buildIndex > Len(rows)
  /\ buildPc' = "returned"
  /\ UNCHANGED <<simVars, kartVars, pertVars, activities, totalPeople,
                 initialResourceWeight, policy, hardMaximumOfRevealingsness,
                 revealingnessDecayRate, startRevealingness, rows, builtGraph,
                 buildIndex>>

BuildNext == BuildStart \/ BuildAddActivity \/ BuildReturn

\* ------------------------------------------------------------------------
\* Inputs of a scheduling run
\* ------------------------------------------------------------------------
RECURSIVE Reaches(_, _, _, _)
\* a is a predecessor of b through at most k dependency steps
Reaches(rel, a, b, k) ==
  /\ k > 0
  /\ \/ a \in rel[b]
     \/ \E c \in rel[b] : Reaches(rel, a, c, k - 1)

Acyclic(rel) ==
  \A n \in DOMAIN rel : ~Reaches(rel, n, n, Cardinality(DOMAIN rel))

HasCycle == ~Acyclic([n \in Nodes |-> activities[n].dependencies])

\* the attribute values of an activity: every duration of durations, the
\* least and the greatest people_required and level_of_revealingness
Attributes(durations, maxLevel) ==
  [expected_duration : durations,
   people_required : {1, MaxPeopleRequired},
   level_of_revealingness : {0, maxLevel},
   monetary_cost_per_day : {1}]

MakeActivities(rel, att) ==
  [n \in DOMAIN rel |->
     [expected_duration |-> att[n].expected_duration,
      people_required |-> att[n].people_required,
      level_of_revealingness |-> att[n].level_of_revealingness,
      monetary_cost_per_day |-> att[n].monetary_cost_per_day,
      dependencies |-> rel[n]]]

\* every dependency relation over S; the attributes vary freely when the
\* relation is acyclic and are the same for all activities when it is not
ActivityInputs(S, durations, maxLevel) ==
  UNION {
    {MakeActivities(rel, att) :
       att \in IF Acyclic(rel) THEN [S -> Attributes(durations, maxLevel)]
               ELSE {[n \in S |-> a] : a \in Attributes(durations, maxLevel)}}
    : rel \in [S -> SUBSET S]}

KartIdle ==
  /\ graph = Nodes
  /\ schedule = <<>>
  /\ timeSlots = [i \in {StartTimeSlot} |->
                    [peopleAvailable |-> totalPeople,
                     totalRevealingness |-> startRevealingness * RevDen,
                     plannedActivityIds |-> <<>>]]
  /\ weightOfResources = initialResourceWeight * ExpectedProjectDuration
  /\ weightOfRevealingness = InitialRevealingnessWeight * WeightDen
  /\ currentTimeSlot = StartTimeSlot
  /\ kartPc = "run"

\* no CSV file is being turned into a graph
BuildIdle ==
  /\ rows = <<>>
  /\ builtGraph = [order |-> <<>>, label |-> <<>>, edges |-> {}]
  /\ buildIndex = 0
  /\ buildPc = "idle"

PertIdle ==
  /\ sorted = <<>>
  /\ nodeIndex = 0
  /\ start = 0
  /\ pertTimeSlots = <<>>
  /\ pertSchedule = <<>>
  /\ criticalPath = [path |-> <<>>, duration |-> 0]
  /\ pertPc = "sort"

\* the simulator before runSimulation is called
SimIdle ==
  /\ simSchedule = <<>>
  /\ amountOfLoops = 0
  /\ batchSize = 1
  /\ decayFactor = DecayFactor
  /\ availablePeople = 0
  /\ globalRevealingness = 0
  /\ currentTime = 0
  /\ currentDecayTime = 0
  /\ totalCost = 0
  /\ totalDelayDays = 0
  /\ blocked = FALSE
  /\ failingActivity = NoValue
  /\ unfinishedActivities = <<>>
  /\ delays = <<>>
  /\ peopleLost = <<>>
  /\ done = <<>>
  /\ inProgress = <<>>
  /\ toDo = <<>>
  /\ tempSchedule = <<>>
  /\ projectFinished = FALSE
  /\ results = <<>>
  /\ outputFile = <<>>
  /\ loopIndex = 0
  /\ drawn = <<>>
  /\ startedAt = <<>>
  /\ trialLog = <<>>
  /\ simPc = "idle"

KartInit ==
  /\ initialResourceWeight = InitialResourceWeight
  /\ policy = "kart"
  /\ activities \in UNION {ActivityInputs(S, 1..MaxDuration, MaxLevel)
                            : S \in KartActivitySets}
  /\ totalPeople \in 1..MaxTotalPeople
  /\ hardMaximumOfRevealingsness \in {1, MaxHardMaximum}
  /\ revealingnessDecayRate \in {0, DecayDen - 1}
  /\ startRevealingness \in {0, MaxStartRevealingness}
  /\ KartIdle
  /\ PertIdle
  /\ SimIdle
  /\ BuildIdle

PertInit ==
  /\ policy = "pert"
  /\ activities \in UNION {ActivityInputs(S, {1, MaxDuration}, 0)
                            : S \in PertActivitySets}
  /\ totalPeople \in 1..MaxTotalPeople
  /\ hardMaximumOfRevealingsness = 1
  /\ revealingnessDecayRate = 0
  /\ startRevealingness = 0
  /\ initialResourceWeight = InitialResourceWeight
  /\ KartIdle
  /\ PertIdle
  /\ SimIdle
  /\ BuildIdle

\* the earliest-feasible-start scheduler on activities whose durations are
\* whole days
WholeDayInit ==
  /\ policy = "pert"
  /\ activities \in UNION {ActivityInputs(S, {TimeDen, MaxDuration * TimeDen}, 0)
                            : S \in PertActivitySets}
  /\ totalPeople \in 1..MaxTotalPeople
  /\ hardMaximumOfRevealingsness = 1
  /\ revealingnessDecayRate = 0
  /\ startRevealingness = 0
  /\ initialResourceWeight = InitialResourceWeight
  /\ KartIdle
  /\ PertIdle
  /\ SimIdle
  /\ BuildIdle

WholeDaySpec == WholeDayInit /\ [][PertNext]_vars

\* the look-ahead scheduler called with totalPeople and the default
\* threshold
LookAheadInit ==
  /\ policy = "pert"
  /\ activities \in UNION {ActivityInputs(S, {MaxDuration}, MaxLookAheadLevel)
                            : S \in PertActivitySets}
  /\ totalPeople \in 1..MaxTotalPeople
  /\ hardMaximumOfRevealingsness = 1
  /\ revealingnessDecayRate = 0
  /\ startRevealingness = 0
  /\ initialResourceWeight = InitialResourceWeight
  /\ KartIdle
  /\ PertIdle
  /\ SimIdle
  /\ BuildIdle

LookAheadSpec == LookAheadInit /\ [][LookAheadNext]_vars

\* calculateCriticalPath called on the graph of the activities
CriticalInit ==
  /\ policy = "pert"
  /\ activities \in UNION {ActivityInputs(S, {1, MaxDuration}, 0)
                            : S \in PertActivitySets}
  /\ totalPeople = 1
  /\ hardMaximumOfRevealingsness = 1
  /\ revealingnessDecayRate = 0
  /\ startRevealingness = 0
  /\ initialResourceWeight = InitialResourceWeight
  /\ KartIdle
  /\ PertIdle
  /\ SimIdle
  /\ BuildIdle

CriticalSpec == CriticalInit /\ [][CriticalNext]_vars

SchedInit == KartInit \/ PertInit
SchedNext == KartNext \/ PertNext
SchedSpec == SchedInit /\ [][SchedNext]_vars

\* Both schedulers on the same activities, whose dependencies have no
\* cycle, and the same capacity: scheduleActivities
\* (risk-balanced) called with initialResourceWeight = 0,
\* initialRevealingnessWeight = 0 and a hardMaximumOfRevealingsness above
\* every sum of levels with its carry, then buildGraph again and
\* scheduleActivities (earliest-feasible-start)
DegenerateInit ==
  /\ policy = "kart"
  /\ activities \in UNION {ActivityInputs(S, 1..MaxDuration, MaxLevel)
                            : S \in KartActivitySets}
  /\ ~HasCycle
  /\ totalPeople \in 1..MaxTotalPeople
  /\ initialResourceWeight = 0
  /\ hardMaximumOfRevealingsness = Len(RowOrder) * MaxLevel * DecayDen + 1
  /\ revealingnessDecayRate \in {0, DecayDen - 1}
  /\ startRevealingness = 0
  /\ graph = Nodes
  /\ schedule = <<>>
  /\ timeSlots = [i \in {StartTimeSlot} |->
                    [peopleAvailable |-> totalPeople,
                     totalRevealingness |-> 0,
                     plannedActivityIds |-> <<>>]]
  /\ weightOfResources = 0
  /\ weightOfRevealingness = 0
  /\ currentTimeSlot = StartTimeSlot
  /\ kartPc = "run"
  /\ PertIdle
  /\ SimIdle
  /\ BuildIdle

\* the risk-balanced run has returned; the graph it emptied is built again
\* for the earliest-feasible-start run
DegenerateSwitch ==
  /\ policy = "kart"
  /\ kartPc = "returned"
  /\ policy' = "pert"
  /\ graph' = Nodes
  /\ UNCHANGED <<simVars, pertVars, activities, totalPeople,
                 initialResourceWeight, hardMaximumOfRevealingsness,
                 revealingnessDecayRate, startRevealingness, buildVars,
                 schedule, timeSlots, weightOfResources, weightOfRevealingness,
                 currentTimeSlot, kartPc>>

DegenerateNext ==
  \/ KartTimeSlot \/ KartReturn \/ DegenerateSwitch
  \/ PertSorted \/ PertNode \/ PertDelay \/ PertAllocate \/ PertReturn
DegenerateSpec == DegenerateInit /\ [][DegenerateNext]_vars

\* the rows of a CSV file: one or two rows over two wbs_codes, a
\* predecessor list of at most one code, a people_required that tells the
\* rows of one code apart, and durations in tenths with
\* optimistic <= likely <= pessimistic
BuildRows ==
  UNION {[1..n -> {r \in [wbs_code : {RowOrder[1], RowOrder[2]},
                          predecessor : {<<>>, <<RowOrder[1]>>, <<RowOrder[2]>>},
                          people_required : {1, MaxPeopleRequired},
                          optimistic_duration : {1, MaxTenths},
                          likely_duration : {1, MaxTenths},
                          pessimistic_duration : {1, MaxTenths}] :
                     /\ r.optimistic_duration <= r.likely_duration
                     /\ r.likely_duration <= r.pessimistic_duration}]
           : n \in 1..2}

BuildInit ==
  /\ rows \in BuildRows
  /\ builtGraph = [order |-> <<>>, label |-> <<>>, edges |-> {}]
  /\ buildIndex = 0
  /\ buildPc = "idle"
  /\ activities = <<>>
  /\ initialResourceWeight = 0
  /\ policy = "none"
  /\ hardMaximumOfRevealingsness = 0
  /\ revealingnessDecayRate = 0
  /\ startRevealingness = 0
  /\ totalPeople = 0
  /\ graph = {}
  /\ schedule = <<>>
  /\ timeSlots = <<>>
  /\ weightOfResources = 0
  /\ weightOfRevealingness = 0
  /\ currentTimeSlot = 0
  /\ kartPc = "idle"
  /\ sorted = <<>>
  /\ nodeIndex = 0
  /\ start = 0
  /\ pertTimeSlots = <<>>
  /\ pertSchedule = <<>>
  /\ criticalPath = [path |-> <<>>, duration |-> 0]
  /\ pertPc = "idle"
  /\ SimIdle

BuildSpec == BuildInit /\ [][BuildNext]_vars

\* ------------------------------------------------------------------------
\* The two end-to-end scenarios; the revealingness levels, the revealingness
\* parameters of the run and the durations the scenario leaves open are free
\* ------------------------------------------------------------------------
\* A (2 units, 2 people) before B (3 units, 2 people)
ScenarioActivities(levelA, levelB) ==
  [n \in {"A", "B"} |->
     [expected_duration |-> IF n = "A" THEN 2 * TimeDen ELSE 3 * TimeDen,
      people_required |-> 2,
      level_of_revealingness |-> IF n = "A" THEN levelA ELSE levelB,
      monetary_cost_per_day |-> 1,
      dependencies |-> IF n = "A" THEN {} ELSE {"A"}]]

\* two independent activities that need 2 people each
IndependentActivities(durationA, durationB, level) ==
  [n \in {"A", "B"} |->
     [expected_duration |-> IF n = "A" THEN durationA ELSE durationB,
      people_required |-> 2,
      level_of_revealingness |-> level,
      monetary_cost_per_day |-> 1,
      dependencies |-> {}]]

ScenarioInit ==
  /\ \/ /\ policy = "kart"
        /\ \E levelA, levelB \in 0..MaxLevel :
             activities = ScenarioActivities(levelA, levelB)
        /\ totalPeople = 2
        /\ hardMaximumOfRevealingsness \in {1, MaxHardMaximum}
        /\ revealingnessDecayRate \in {0, DecayDen - 1}
     \/ /\ policy \in {"kart", "pert"}
        /\ \E durationA, durationB \in 1..MaxDuration :
             activities = IndependentActivities(durationA, durationB, 0)
        /\ totalPeople \in 1..2
        /\ hardMaximumOfRevealingsness = MaxHardMaximum
        /\ revealingnessDecayRate = DecayDen - 1
  /\ startRevealingness = 0
  /\ initialResourceWeight = InitialResourceWeight
  /\ KartIdle
  /\ PertIdle
  /\ SimIdle
  /\ BuildIdle

ScenarioNext ==
  \/ KartReturn \/ KartTimeSlot
  \/ PertSorted \/ PertNode \/ PertDelay \/ PertAllocate \/ PertReturn
ScenarioSpec == ScenarioInit /\ [][ScenarioNext]_vars
\* a run that can take a step takes it
FairScenarioSpec == ScenarioSpec /\ WF_vars(ScenarioNext)

\* ------------------------------------------------------------------------
\* Inputs of a simulation run
\* ------------------------------------------------------------------------
\* the schedulers while the simulator runs
SchedIdle ==
  /\ BuildIdle
  /\ activities = <<>>
  /\ initialResourceWeight = 0
  /\ policy = "none"
  /\ hardMaximumOfRevealingsness = 0
  /\ revealingnessDecayRate = 0
  /\ startRevealingness = 0
  /\ graph = {}
  /\ schedule = <<>>
  /\ timeSlots = <<>>
  /\ weightOfResources = 0
  /\ weightOfRevealingness = 0
  /\ currentTimeSlot = 0
  /\ kartPc = "idle"
  /\ sorted = <<>>
  /\ nodeIndex = 0
  /\ start = 0
  /\ pertTimeSlots = <<>>
  /\ pertSchedule = <<>>
  /\ criticalPath = [path |-> <<>>, duration |-> 0]
  /\ pertPc = "idle"

\* the id a dependency list may hold that no activity of the schedule has
DanglingId == "X"

\* the risk attributes of the activity at each row of the schedule file:
\* <<level_of_revealingness, chance_of_delays, weight_of_delays,
\*   chance_of_losing_people, weight_of_losing_people,
\*   monetary_cost_per_day>>; category 0 has no entry in chanceValues or
\* revealingnessValues
FullRisk ==
  <<<<5, 2, 2, 1, 2, 3>>, <<1, 0, 1, 3, 1, 2>>, <<0, 4, 3, 0, 0, 1>>>>
SingleDrawRisk ==
  <<<<5, 2, 2, 0, 0, 3>>, <<1, 0, 0, 3, 1, 2>>, <<0, 4, 3, 0, 0, 1>>>>

SimActivity(row, risk, startTime, duration, people, deps, hasEnd) ==
  [id |-> RowOrder[row],
   start |-> startTime,
   expected_duration |-> duration,
   monetary_cost_per_day |-> risk[row][6],
   people_required |-> people,
   level_of_revealingness |-> risk[row][1],
   chance_of_delays |-> risk[row][2],
   weight_of_delays |-> risk[row][3],
   chance_of_losing_people |-> risk[row][4],
   weight_of_losing_people |-> risk[row][5],
   dependencies |-> deps,
   end |-> IF hasEnd THEN startTime * TimeDen + duration ELSE NoValue]

\* dependency lists of at most one id: another row of the file or DanglingId
SimDependencies(row, n, others) ==
  {{}} \cup {{x} : x \in ({RowOrder[k] : k \in 1..n} \ {RowOrder[row]})
                            \cup others}

\* the schedule files of n rows; end is present in all rows or in none
SimSchedules(n, risk, starts, durations, peoples, others) ==
  UNION {
    {[row \in 1..n |->
        SimActivity(row, risk, st[row], du[row], pe[row], de[row], hasEnd)]
       : st \in [1..n -> starts], du \in [1..n -> durations],
         pe \in [1..n -> peoples],
         de \in {f \in [1..n -> SUBSET (Ids \cup others)] :
                   \A row \in 1..n : f[row] \in SimDependencies(row, n, others)}}
    : hasEnd \in BOOLEAN}

\* runSimulation before the first trial: results = [], "[" written
SimStart ==
  /\ availablePeople = 0
  /\ globalRevealingness = 0
  /\ currentTime = 0
  /\ currentDecayTime = 0
  /\ totalCost = 0
  /\ totalDelayDays = 0
  /\ blocked = FALSE
  /\ failingActivity = NoValue
  /\ unfinishedActivities = <<>>
  /\ delays = <<>>
  /\ peopleLost = <<>>
  /\ done = <<>>
  /\ inProgress = <<>>
  /\ toDo = <<>>
  /\ tempSchedule = <<>>
  /\ projectFinished = FALSE
  /\ results = <<>>
  /\ outputFile = <<"[">>
  /\ loopIndex = 0
  /\ drawn = <<>>
  /\ startedAt = <<>>
  /\ trialLog = <<>>
  /\ simPc = "trial"

\* one trial of a schedule of two rows, with every kind of dependency list
SimInit ==
  /\ SchedIdle
  /\ totalPeople \in 1..MaxTotalPeople
  /\ simSchedule \in SimSchedules(2, FullRisk, {0, MaxStart},
                                  {1, MaxSimDuration},
                                  {0, 1, MaxSimPeopleRequired}, {DanglingId})
  /\ amountOfLoops = 1
  /\ batchSize = 1
  /\ decayFactor = DecayFactor
  /\ SimStart

SimSpec == SimInit /\ [][SimNext]_vars

\* several trials of a schedule whose dependencies name its own rows and
\* have no cycle, so that every trial ends, or of a schedule of no rows
BatchInit ==
  /\ SchedIdle
  /\ totalPeople \in 1..MaxTotalPeople
  /\ simSchedule \in SimSchedules(2, SingleDrawRisk, {0}, {1, MaxSimDuration},
                                  {1, MaxSimPeopleRequired}, {})
                     \cup {<<>>}
  /\ Acyclic([row \in DOMAIN simSchedule |->
                {k \in DOMAIN simSchedule :
                   simSchedule[k].id \in simSchedule[row].dependencies}])
  /\ amountOfLoops \in 0..MaxLoops
  /\ batchSize \in {1, MaxBatchSize}
  /\ decayFactor = DecayFactor
  /\ SimStart

BatchSpec == BatchInit /\ [][SimNext]_vars

\* one trial of a schedule of one row
SmallSimInit ==
  /\ SchedIdle
  /\ totalPeople \in 1..MaxTotalPeople
  /\ simSchedule \in SimSchedules(1, FullRisk, {0}, 1..MaxSimDuration,
                                  1..MaxSimPeopleRequired, {DanglingId})
  /\ amountOfLoops = 1
  /\ batchSize = 1
  /\ decayFactor = DecayFactor
  /\ SimStart

FairSimSpec == SmallSimInit /\ [][SimNext]_vars /\ WF_vars(SimNext)

\* one trial of a schedule of two rows whose durations are a whole day or
\* more, with starts on every day up to MaxStart
ReplayInit ==
  /\ SchedIdle
  /\ totalPeople \in 1..MaxTotalPeople
  /\ simSchedule \in SimSchedules(2, FullRisk, 0..MaxStart,
                                  {TimeDen, MaxSimDuration},
                                  {1, MaxSimPeopleRequired}, {})
  /\ amountOfLoops = 1
  /\ batchSize = 1
  /\ decayFactor \in {0, DecayFactor}
  /\ SimStart

ReplaySpec == ReplayInit /\ [][SimNext]_vars

\* Schedule_runner.js before the first trial: the module-level variables of
\* lines 19-37, "[" written
RunnerStart ==
  /\ availablePeople = totalPeople
  /\ globalRevealingness = 0
  /\ currentTime = 0
  /\ currentDecayTime = 0
  /\ totalCost = 0
  /\ totalDelayDays = 0
  /\ blocked = FALSE
  /\ failingActivity = RunnerUndefined
  /\ unfinishedActivities = <<>>
  /\ delays = <<>>
  /\ peopleLost = <<>>
  /\ done = <<>>
  /\ inProgress = <<>>
  /\ toDo = <<>>
  /\ tempSchedule = <<>>
  /\ projectFinished = FALSE
  /\ results = <<>>
  /\ outputFile = <<"[">>
  /\ loopIndex = 0
  /\ drawn = <<>>
  /\ startedAt = <<>>
  /\ trialLog = <<>>
  /\ simPc = "trial"

\* Schedule_runner.js on a schedule file of two rows; the constant
\* TOTAL_PEOPLE is the value of totalPeople
RunnerInit ==
  /\ SchedIdle
  /\ totalPeople \in 1..MaxTotalPeople
  /\ simSchedule \in SimSchedules(2, FullRisk, {0, MaxStart},
                                  {1, MaxSimDuration},
                                  {1, MaxSimPeopleRequired}, {})
  /\ amountOfLoops = MaxLoops
  /\ batchSize \in {1, MaxBatchSize}
  /\ decayFactor = DecayFactor
  /\ RunnerStart

RunnerSpec == RunnerInit /\ [][RunnerNext]_vars

\* ------------------------------------------------------------------------
\* Properties of the schedulers
\* ------------------------------------------------------------------------
RECURSIVE SumSeq(_)
SumSeq(s) == IF s = <<>> THEN 0 ELSE Head(s) + SumSeq(Tail(s))

TimeUnits == 0..(2 * MaxTimeSlot + MaxDuration)

\* people needed in time unit u by the activities whose span contains u
KartLoad(u) ==
  LET need(x) == IF x.activityStartTime <= u /\ u < x.activityEndTime
                 THEN activities[x.id].people_required ELSE 0
  IN SumSeq([k \in 1..Len(schedule) |-> need(schedule[k])])

PertLoad(u) ==
  LET need(x) == IF x.start <= u * TimeDen /\ u * TimeDen < x.end
                 THEN activities[x.id].people_required ELSE 0
  IN SumSeq([k \in 1..Len(pertSchedule) |-> need(pertSchedule[k])])

KartResourceInvariant ==
  kartPc = "returned" => \A u \in TimeUnits : KartLoad(u) <= totalPeople

PertResourceInvariant ==
  pertPc = "returned" => \A u \in TimeUnits : PertLoad(u) <= totalPeople

\* C1: in every returned schedule, of either scheduler, the people required
\* by the activities spanning a time unit never exceed the total people
C1_ResourceInvariant == KartResourceInvariant /\ PertResourceInvariant

KartPrecedence ==
  \A k \in 1..Len(schedule) :
    \A d \in activities[schedule[k].id].dependencies :
      \E j \in 1..Len(schedule) :
        /\ schedule[j].id = d
        /\ schedule[j].activityEndTime <= schedule[k].activityStartTime

PertPrecedence ==
  \A k \in 1..Len(pertSchedule) :
    \A d \in activities[pertSchedule[k].id].dependencies :
      \E j \in 1..Len(pertSchedule) :
        /\ pertSchedule[j].id = d
        /\ pertSchedule[j].end <= pertSchedule[k].start

\* C2: in every returned schedule, of either scheduler, an activity starts
\* no earlier than the end of each of its predecessors
C2_Precedence ==
  /\ kartPc = "returned" => KartPrecedence
  /\ pertPc = "returned" => PertPrecedence

C2_Witness ==
  \/ /\ kartPc = "returned"
     /\ \E k \in 1..Len(schedule) :
          activities[schedule[k].id].dependencies # {}
  \/ /\ pertPc = "returned"
     /\ \E k \in 1..Len(pertSchedule) :
          activities[pertSchedule[k].id].dependencies # {}

\* C3: for an acyclic activity set the risk-balanced run eventually returns
\* a schedule that contains every activity
C3_Terminates ==
  (policy = "kart" /\ ~HasCycle) ~>
     (kartPc = "returned" /\ {schedule[k].id : k \in 1..Len(schedule)} = Nodes)

\* C4: with a cyclic predecessor relation a run places nothing and returns
\* nothing; the only way it leaves its first step is the cycle error
C4_CycleFails ==
  HasCycle =>
    /\ kartPc \in {"run", "cycle"}
    /\ schedule = <<>>
    /\ graph = Nodes
    /\ currentTimeSlot = StartTimeSlot
    /\ pertPc \in {"sort", "cycle"}
    /\ pertSchedule = <<>>
    /\ pertTimeSlots = <<>>

C4_Witness ==
  /\ HasCycle
  /\ \/ policy = "kart" /\ kartPc = "cycle"
     \/ policy = "pert" /\ pertPc = "cycle"

C5Scenario ==
  /\ Nodes = {"A", "B"}
  /\ totalPeople = 1
  /\ \A n \in Nodes :
       /\ activities[n].people_required = 2
       /\ activities[n].dependencies = {}

\* C5: with 1 person in total and two independent activities that need 2
\* people each, the run eventually fails as unschedulable
C5_Unschedulable ==
  C5Scenario ~> (kartPc = "unschedulable" \/ pertPc = "unschedulable")

C6Scenario ==
  /\ policy = "kart"
  /\ activities = ScenarioActivities(0, 0)
  /\ totalPeople = 2

\* C6: the risk-balanced run of the scenario returns A at [0, 2) and B at
\* [2, 5)
C6_ScenarioSchedule ==
  (C6Scenario /\ kartPc = "returned") =>
    schedule = <<[id |-> "A", activityStartTime |-> 0, activityEndTime |-> 2],
                 [id |-> "B", activityStartTime |-> 2, activityEndTime |-> 5]>>

\* ------------------------------------------------------------------------
\* Properties of the simulator
\* ------------------------------------------------------------------------
ScheduleIds == {simSchedule[p].id : p \in DOMAIN simSchedule}

DependenciesNamed ==
  \A p \in DOMAIN simSchedule : simSchedule[p].dependencies \subseteq ScheduleIds

Unstartable ==
  {p \in DOMAIN simSchedule : simSchedule[p].people_required > totalPeople}

C8_Terminates == (simPc = "loop") ~> (simPc = "print")

Pending == Range(toDo)
InProgress == Range(inProgress)
Done == Range(done)

ExactlyOneSet ==
  /\ Pending \cup InProgress \cup Done = DOMAIN tempSchedule
  /\ Len(toDo) + Len(inProgress) + Len(done) = Len(tempSchedule)

\* C9: within a trial every activity is in exactly one of Pending,
\* InProgress and Done; no step of the loop moves an activity back (Done
\* stays Done, nothing returns to Pending, InProgress is entered only from
\* Pending) and no step, each being one advance of the clock, takes an
\* activity from Pending to Done.
C9_StateMachine ==
  [][(simPc = "loop") =>
       /\ ExactlyOneSet
       /\ ExactlyOneSet'
       /\ Done \subseteq Done'
       /\ Pending' \subseteq Pending
       /\ InProgress' \subseteq Pending \cup InProgress
       /\ Pending \cap Done' = {}
       /\ currentTime' \in {currentTime, currentTime + 1}]_vars

\* a trial in which both activities went from Pending through InProgress
\* to Done, one after the other
C9_Witness ==
  /\ simPc = "print"
  /\ projectFinished
  /\ Len(done) = 2
  /\ simSchedule[done[2]].dependencies = {simSchedule[done[1]].id}

\* C10: two trials of one run that received the same sequence of draw
\* outcomes produced identical SimulationResults, whatever their position
\* in the batch.
C10_Reproducible ==
  \A i \in 1..Len(trialLog) : \A j \in 1..Len(trialLog) :
    trialLog[i].drawn = trialLog[j].drawn =>
      trialLog[i].result = trialLog[j].result

\* two trials, the second starting a new batch, with the same outcomes,
\* among them a delay and a loss of a person
C10_Witness ==
  /\ Len(trialLog) >= 2
  /\ batchSize = 1
  /\ trialLog[1].drawn = trialLog[2].drawn
  /\ Len(trialLog[2].result.delays) > 0
  /\ Len(trialLog[2].result.peopleLost) > 0

\* C11: in the batch loop of Schedule_runner.js no trial reports state left
\* by an earlier trial, trials with the same draws report the same result,
\* and a trial that finishes the project reports no failing activity
C11_TrialsIndependent ==
  /\ \A k \in 1..Len(trialLog) :
       /\ ~trialLog[k].stale
       /\ trialLog[k].result.projectFinished
            => trialLog[k].result.failingActivity = RunnerUndefined
  /\ \A j, k \in 1..Len(trialLog) :
       trialLog[j].drawn = trialLog[k].drawn
         => trialLog[j].result = trialLog[k].result

\* C12: a trial of runSimulation on a schedule of zero activities never
\* advances the clock and reports projectFinished = true,
\* totalProjectDuration = 0, totalCost = 0, no finished and no unfinished
\* activity, and total = the completion reward
C12_EmptySchedule ==
  simSchedule = <<>> =>
    /\ currentTime = 0
    /\ \A k \in 1..Len(trialLog) :
         LET result == trialLog[k].result
         IN /\ result.projectFinished = TRUE
            /\ result.totalProjectDuration = 0
            /\ result.totalCost = 0
            /\ result.finishedActivities = <<>>
            /\ result.unfinishedActivities = <<>>
            /\ result.total = CompletionReward * TimeDen

C12_Witness ==
  simSchedule = <<>> /\ Len(trialLog) = MaxLoops /\ simPc = "end"

\* C13: with resource weight 0, exposure weight 0 and ceilings that never
\* bind, the risk-balanced scheduler gives every activity the same start
\* and end offsets as the earliest-feasible-start scheduler on the same
\* activities and capacity
C13_DegenerateCase ==
  (kartPc = "returned" /\ pertPc = "returned") =>
    \A j \in 1..Len(schedule) :
      \A k \in 1..Len(pertSchedule) :
        schedule[j].id = pertSchedule[k].id =>
          /\ schedule[j].activityStartTime * TimeDen = pertSchedule[k].start
          /\ schedule[j].activityEndTime * TimeDen = pertSchedule[k].end

\* C14: adding an activity whose id is already in the graph fails with a
\* duplicate-identifier error and leaves the graph unchanged
C14_DuplicateRejected ==
  [][(BuildAddActivity
        /\ BuildActivities[buildIndex].id \in DOMAIN builtGraph.label
        /\ builtGraph.label[BuildActivities[buildIndex].id] # NoLabel)
       => (buildPc' = "DuplicateIdentifier" /\ builtGraph' = builtGraph)]_vars

\* C15: for optimistic <= likely <= pessimistic the expected duration
\* (o + 4 * m + p) / 6 lies between o and p inclusive, and equals m when
\* o = m = p
C15_ExpectedDuration ==
  \A id \in DOMAIN builtGraph.label :
    LET act == builtGraph.label[id]
    IN (/\ act # NoLabel
        /\ act.optimistic_duration <= act.likely_duration
        /\ act.likely_duration <= act.pessimistic_duration) =>
         /\ act.optimistic_duration <= act.expected_duration
         /\ act.expected_duration <= act.pessimistic_duration
         /\ (/\ act.optimistic_duration = act.likely_duration
             /\ act.likely_duration = act.pessimistic_duration)
              => act.expected_duration = act.likely_duration

\* C16: runSimulation declares a trial blocked only when no activity is
\* InProgress, and failingActivity is then a Pending activity that has
\* reached its start, has every predecessor Done and requires more people
\* than are available
C16_BlockedOnlyWhenStarved ==
  blocked =>
    /\ Len(inProgress) = 0
    /\ failingActivity \in Pending
    /\ tempSchedule[failingActivity].start <= currentTime
    /\ dependenciesMet(tempSchedule[failingActivity], done, tempSchedule)
    /\ tempSchedule[failingActivity].people_required > availablePeople

\* a trial blocked after an activity finished and people were lost: the
\* failing activity would have fitted in totalPeople
C16_Witness ==
  /\ blocked
  /\ Len(done) > 0
  /\ tempSchedule[failingActivity].people_required <= totalPeople

\* C17: Schedule_runner.js ends a trial as deadlocked only when nothing is
\* InProgress and some Pending activity that has reached its start, with
\* every predecessor Done, requires more people than are available; a
\* Pending activity whose start is still in the future never causes it
C17_DeadlockOnlyWhenStarved ==
  (simPc = "print" /\ ~projectFinished) =>
    /\ Len(inProgress) = 0
    /\ \E row \in Range(toDo) :
         /\ tempSchedule[row].start <= currentTime
         /\ dependenciesMet(tempSchedule[row], done, tempSchedule)
         /\ tempSchedule[row].people_required > availablePeople

\* C18: when a trial of runSimulation has ended nothing is InProgress, the
\* finishedActivities and unfinishedActivities of its result are disjoint
\* and together are the ids of the schedule, and unfinishedActivities is
\* non-empty exactly when the trial was blocked, which is when
\* projectFinished is false and failingActivity is set
C18_TrialEnd ==
  simPc = "print" =>
    LET result == printFinalResult
    IN /\ Len(inProgress) = 0
       /\ Range(result.finishedActivities)
            \cap Range(result.unfinishedActivities) = {}
       /\ Range(result.finishedActivities)
            \cup Range(result.unfinishedActivities) = ScheduleIds
       /\ (Len(result.unfinishedActivities) > 0) <=> blocked
       /\ blocked <=> ~result.projectFinished
       /\ blocked <=> failingActivity # NoValue

\* a blocked trial that ended with one activity finished and one unfinished
C18_Witness ==
  /\ simPc = "print"
  /\ blocked
  /\ Len(done) = 1
  /\ Len(unfinishedActivities) = 1

\* people_required of the activities at positions k..Len(list) of list
PeopleFrom(list, k) ==
  SumSeq([j \in 1..(Len(list) - k + 1) |->
            tempSchedule[list[k + j - 1]].people_required])

\* C19: an activity enters InProgress only at a clock value at or after its
\* start, only when every predecessor is Done, and only when its
\* people_required is at most the people available at that moment of the
\* start pass (the people left after the step plus the people taken by it
\* and by the activities started after it)
C19_StartConditions ==
  [][(simPc = "loop") =>
       \A k \in 1..Len(inProgress') :
         LET row == inProgress'[k]
         IN row \notin InProgress =>
              /\ tempSchedule[row].start <= currentTime
              /\ \A id \in tempSchedule[row].dependencies :
                   \E d \in Range(done') : tempSchedule[d].id = id
              /\ tempSchedule[row].people_required
                   <= availablePeople' + PeopleFrom(inProgress', k)]_vars

\* the second activity was started in a later step than the first, after
\* its predecessor was done
C19_Witness ==
  /\ simPc = "loop"
  /\ Len(done) = 1
  /\ Len(inProgress) = 1
  /\ simSchedule[inProgress[1]].dependencies = {simSchedule[done[1]].id}
  /\ simSchedule[inProgress[1]].people_required > 0

\* C20: in every reachable state of runSimulation availablePeople is
\* between 0 and totalPeople, and availablePeople plus the people_required
\* of the InProgress activities is at most totalPeople
C20_PeopleBounds ==
  /\ 0 <= availablePeople
  /\ availablePeople <= totalPeople
  /\ availablePeople + PeopleFrom(inProgress, 1) <= totalPeople

\* a person was lost while another activity was in progress
C20_Witness ==
  /\ simPc = "loop"
  /\ Len(peopleLost) > 0
  /\ Len(inProgress) > 0
  /\ availablePeople + PeopleFrom(inProgress, 1) < totalPeople

\* C21: when an attrition event fires on the completion of an activity,
\* the available pool (the people released by the completion included)
\* decreases by the activity's weight_of_losing_people, floored at zero;
\* stated for the steps in which one activity completes
C21_AttritionByWeight ==
  [][(simPc = "loop" /\ Len(done') = Len(done) + 1
        /\ Len(peopleLost') = Len(peopleLost) + 1) =>
       LET activity == tempSchedule'[done'[Len(done')]]
           released == availablePeople + activity.people_required
           left == IF released - activity.weight_of_losing_people < 0 THEN 0
                   ELSE released - activity.weight_of_losing_people
       IN availablePeople' + PeopleFrom(inProgress', 1)
            = left + PeopleFrom(inProgress, 1) - activity.people_required]_vars

\* C22: globalRevealingness is never negative in a reachable state of
\* runSimulation, whatever decays, completions and starts have happened
C22_RevealingnessNonNegative ==
  globalRevealingness >= 0

\* the decay has used up what the started activities added
C22_Witness ==
  /\ simPc = "loop"
  /\ decayFactor > 0
  /\ Len(inProgress) + Len(done) > 0
  /\ \E row \in Range(inProgress) \cup Range(done) :
       tempSchedule[row].level_of_revealingness \in DOMAIN RevealingnessValues
  /\ globalRevealingness = 0

\* the row of the schedule file that holds the activity with this id
RowOf(id) == CHOOSE row \in DOMAIN tempSchedule : tempSchedule[row].id = id

\* C23: when a trial of runSimulation has ended, the accumulated cost is
\* the sum of expected_duration * monetary_cost_per_day * people_required
\* over the activities that entered InProgress, plus the sum of
\* weight_of_delays * monetary_cost_per_day * people_required over the
\* recorded delay events, plus the elapsed days times the base cost per day
\* (activities left in ToDo add nothing), and the reported total is the
\* completion reward minus that cost
C23_CostAccounting ==
  (simPc \in {"trial", "end"} /\ Len(trialLog) > 0) =>
    LET started == done \o inProgress
        startCost ==
          SumSeq([k \in 1..Len(started) |->
                    tempSchedule[started[k]].expected_duration
                      * tempSchedule[started[k]].monetary_cost_per_day
                      * tempSchedule[started[k]].people_required])
        delayCost ==
          SumSeq([k \in 1..Len(delays) |->
                    tempSchedule[RowOf(delays[k].activity)].weight_of_delays
                      * tempSchedule[RowOf(delays[k].activity)]
                          .monetary_cost_per_day
                      * tempSchedule[RowOf(delays[k].activity)].people_required
                      * TimeDen])
        overhead == currentTime * BaseCostPerDay * TimeDen
    IN /\ totalCost = startCost + delayCost + overhead
       /\ trialLog[Len(trialLog)].result.total
            = CompletionReward * TimeDen - totalCost

\* a trial has ended blocked: one activity ran with its delay event fired,
\* the other never started
C23_Witness ==
  /\ simPc = "end"
  /\ Len(trialLog) > 0
  /\ Len(delays) > 0
  /\ Len(done) > 0
  /\ Len(toDo) > 0
  /\ \E k \in 1..Len(done) : tempSchedule[done[k]].people_required > 0

\* the ids of the activities at the rows of a work list
IdsOf(temp, list) == {temp[row].id : row \in Range(list)}

\* C24: delay and attrition events are recorded only in the step that
\* moves their activity to Done, at most one event of each kind per
\* activity and trial: the ids in delays and peopleLost belong to finished
\* activities, and totalDelayDays is the sum of weight_of_delays over the
\* recorded delay events
C24_EventsOnCompletion ==
  [][LET newDone == IdsOf(tempSchedule', done') \ IdsOf(tempSchedule, done)
         newEvents(old, new) ==
           {new[k].activity : k \in (Len(old) + 1)..Len(new)}
         once(list) ==
           \A k, l \in 1..Len(list) :
             list[k].activity = list[l].activity => k = l
     IN /\ Len(delays') >= Len(delays) => newEvents(delays, delays') \subseteq newDone
        /\ Len(peopleLost') >= Len(peopleLost) =>
             newEvents(peopleLost, peopleLost') \subseteq newDone
        /\ once(delays') /\ once(peopleLost')
        /\ \A k \in 1..Len(delays') :
             delays'[k].activity \in IdsOf(tempSchedule', done')
        /\ \A k \in 1..Len(peopleLost') :
             peopleLost'[k].activity \in IdsOf(tempSchedule', done')
        /\ totalDelayDays'
             = SumSeq([k \in 1..Len(delays') |->
                        tempSchedule'[CHOOSE row \in DOMAIN tempSchedule' :
                                        tempSchedule'[row].id
                                          = delays'[k].activity]
                          .weight_of_delays])]_vars

\* both activities are done, each with an attrition event, one with a
\* delay event of more than one day
C24_Witness ==
  /\ Len(done) = 2
  /\ Len(delays) = 1
  /\ Len(peopleLost) = 2
  /\ totalDelayDays > 1

\* the scheduled end of a row of the schedule file, in 1/TimeDen
ScheduledEnd(row) ==
  simSchedule[row].start * TimeDen + simSchedule[row].expected_duration

\* the schedule file satisfies the precedence invariant
SimPrecedence ==
  \A row \in DOMAIN simSchedule :
    \A id \in simSchedule[row].dependencies :
      \E k \in DOMAIN simSchedule :
        /\ simSchedule[k].id = id
        /\ ScheduledEnd(k) <= simSchedule[row].start * TimeDen

\* the schedule file satisfies the resource invariant for totalPeople
SimResourceInvariant ==
  \A u \in 0..MaxTime :
    SumSeq([row \in DOMAIN simSchedule |->
              IF simSchedule[row].start <= u /\ u * TimeDen < ScheduledEnd(row)
              THEN simSchedule[row].people_required ELSE 0]) <= totalPeople

\* every expected_duration is a positive whole number of days
WholeDurations ==
  \A row \in DOMAIN simSchedule :
    /\ simSchedule[row].expected_duration > 0
    /\ simSchedule[row].expected_duration % TimeDen = 0

\* C25: when the schedule satisfies the precedence and resource invariants
\* for totalPeople and its durations are whole days, then as long as no
\* attrition event has fired in the trial every activity enters InProgress
\* in the step of its scheduled start, the trial is not declared blocked,
\* and it ends with every activity done
C25_ReplayOnSchedule ==
  [][(SimPrecedence /\ SimResourceInvariant /\ WholeDurations
        /\ simPc = "loop" /\ Len(peopleLost') = 0) =>
       /\ \A row \in Range(inProgress') \ Range(inProgress) :
            tempSchedule[row].start = currentTime
       /\ ~blocked'
       /\ simPc' = "print" => Len(done') = Len(simSchedule)]_vars

\* C26: an activity that a step of the trial moves to Done has been
\* InProgress for at least its expected_duration, counted in clock units
\* from the step that started it, also when that step came after its
\* scheduled start
C26_InProgressForDuration ==
  [][simPc = "loop" =>
       \A row \in Range(done') \ Range(done) :
         (currentTime - startedAt[row]) * TimeDen
           >= tempSchedule[row].expected_duration]_vars

\* the largest scheduled end of the schedule file, in 1/TimeDen
Makespan == SetMax({ScheduledEnd(row) : row \in DOMAIN simSchedule})

\* C27: when a trial has finished the project and every activity entered
\* InProgress at its scheduled start, the reported totalProjectDuration is
\* the makespan of the schedule
C27_DurationIsMakespan ==
  (/\ simPc \in {"trial", "end"}
   /\ Len(trialLog) > 0
   /\ Len(simSchedule) > 0
   /\ projectFinished
   /\ \A row \in DOMAIN simSchedule :
        startedAt[row] = simSchedule[row].start) =>
    trialLog[Len(trialLog)].result.totalProjectDuration * TimeDen = Makespan

\* C28: in every state of a trial availablePeople plus the people_required
\* of the InProgress activities is totalPeople minus the number of
\* attrition events recorded in peopleLost, and every reported peopleLeft
\* is totalPeople minus the number of the trial's attrition events
C28_AttritionAccounted ==
  /\ simPc \in {"loop", "print"} =>
       availablePeople + PeopleFrom(inProgress, 1)
         = totalPeople - Len(peopleLost)
  /\ \A k \in 1..Len(trialLog) :
       trialLog[k].result.peopleLeft
         = totalPeople - Len(trialLog[k].result.peopleLost)

\* C28, restricted to schedules whose activities all require at least one
\* person: in every state of a trial availablePeople plus the
\* people_required of the InProgress activities is totalPeople minus the
\* number of attrition events recorded in peopleLost, and every reported
\* peopleLeft is totalPeople minus the number of the trial's attrition
\* events
C28_AttritionAccountedWhenStaffed ==
  (\A row \in DOMAIN simSchedule : simSchedule[row].people_required > 0) =>
    /\ simPc \in {"loop", "print"} =>
         availablePeople + PeopleFrom(inProgress, 1)
           = totalPeople - Len(peopleLost)
    /\ \A k \in 1..Len(trialLog) :
         trialLog[k].result.peopleLeft
           = totalPeople - Len(trialLog[k].result.peopleLost)

\* a trial of such a schedule has ended with an attrition event recorded
C28_Witness ==
  /\ \A row \in DOMAIN simSchedule : simSchedule[row].people_required > 0
  /\ simPc = "end"
  /\ Len(trialLog) > 0
  /\ Len(trialLog[1].result.peopleLost) > 0
  /\ Len(done) > 0

\* the results of the trials k..n of the run, in order
TrialResults(k, n) == [j \in 1..(n - k + 1) |-> trialLog[k + j - 1].result]

\* C29: for every amountOfLoops and batchSize the output file holds "["
\* followed by the results of the trials in order, a separator between two
\* results and none after the last, and then "]"; the buffer results never
\* holds more than batchSize results, holds the latest results not yet
\* written, and is empty when "]" is written
C29_BatchedOutput ==
  LET written == Len(trialLog) - Len(results)
  IN /\ Len(results) <= batchSize
     /\ written >= 0
     /\ results = TrialResults(written + 1, Len(trialLog))
     /\ simPc # "end" =>
          outputFile = <<"[">> \o Join(TrialResults(1, written))
                         \o (IF written > 0 /\ written < amountOfLoops
                             THEN <<",">> ELSE <<>>)
     /\ simPc = "end" =>
          /\ results = <<>>
          /\ Len(trialLog) = amountOfLoops
          /\ outputFile = <<"[">> \o Join(TrialResults(1, amountOfLoops))
                             \o <<"]">>

\* a run of MaxLoops trials written as one batch has ended
C29_Witness ==
  /\ simPc = "end"
  /\ amountOfLoops = MaxLoops
  /\ batchSize = MaxBatchSize
  /\ Len(trialLog) = MaxLoops
  /\ Len(simSchedule) > 0

\* the activity set is acyclic, every requirement is within the capacity,
\* every level of revealingness is below the hard maximum and the decay
\* rate is below 1
Placeable ==
  /\ policy = "kart"
  /\ ~HasCycle
  /\ revealingnessDecayRate < DecayDen
  /\ \A n \in Nodes :
       /\ activities[n].people_required <= totalPeople
       /\ activities[n].level_of_revealingness < hardMaximumOfRevealingsness

\* the ids of the activities placed so far by the risk-balanced run
Placed == {schedule[k].id : k \in 1..Len(schedule)}

\* C30: in a risk-balanced run an activity that was not placed in a time
\* slot stays in the graph for the next time slot and is never dropped;
\* when the set is acyclic, every requirement is within the capacity, every
\* level of revealingness is below the hard maximum and the decay rate is
\* below 1, the run eventually returns with every activity placed
C30_EventuallyPlaced ==
  /\ [](policy = "kart" =>
          /\ graph \cup Placed = Nodes
          /\ graph \cap Placed = {})
  /\ Placeable ~> (kartPc = "returned" /\ graph = {} /\ Placed = Nodes)

\* a run has returned in which an activity without dependencies was placed
\* after the first time slot, and another after its predecessor
C30_Witness ==
  /\ Placeable
  /\ kartPc = "returned"
  /\ Placed = Nodes
  /\ \E k \in 1..Len(schedule) :
       /\ schedule[k].activityStartTime > StartTimeSlot
       /\ \/ activities[schedule[k].id].dependencies = {}
          \/ activities[schedule[k].id].level_of_revealingness > 0

\* C31: throughout a risk-balanced run the totalRevealingness of every
\* time slot of the ledger is at most the hard maximum, after a placement
\* and after the decayed revealingness of the previous slot was carried
\* into a slot
C31_ExposureWithinCeiling ==
  policy = "kart" =>
    \A i \in DOMAIN timeSlots :
      timeSlots[i].totalRevealingness
        <= hardMaximumOfRevealingsness * RevDen

\* the people available and the revealingness the ledger holds for a time
\* unit; a unit without an entry has all people available and none
LedgerAt(slots, i) ==
  IF i \in DOMAIN slots
  THEN [peopleAvailable |-> slots[i].peopleAvailable,
        totalRevealingness |-> slots[i].totalRevealingness]
  ELSE [peopleAvailable |-> totalPeople, totalRevealingness |-> 0]

\* C32: a pass of the risk-balanced loop that places activities changes
\* the ledger only on the time units of their spans [start, end): there
\* the people available drop by people_required and, after the current
\* slot, the revealingness rises by the level; every unit outside the
\* spans, the end unit included, keeps its entry
C32_LedgerFrame ==
  [][(policy = "kart" /\ Len(schedule') > Len(schedule)) =>
       \A i \in 0..(MaxTimeSlot + MaxDuration + 1) :
         LET placedOver ==
               {k \in (Len(schedule) + 1)..Len(schedule') :
                  /\ schedule'[k].activityStartTime <= i
                  /\ i < schedule'[k].activityEndTime}
             people ==
               SumSeq([k \in 1..Len(schedule') |->
                         IF k \in placedOver
                         THEN activities[schedule'[k].id].people_required
                         ELSE 0])
             level ==
               SumSeq([k \in 1..Len(schedule') |->
                         IF k \in placedOver
                         THEN activities[schedule'[k].id].level_of_revealingness
                         ELSE 0])
         IN /\ LedgerAt(timeSlots', i).peopleAvailable
                 = LedgerAt(timeSlots, i).peopleAvailable - people
            /\ i # currentTimeSlot =>
                 LedgerAt(timeSlots', i).totalRevealingness
                   = LedgerAt(timeSlots, i).totalRevealingness
                       + level * RevDen]_vars

\* the nodes of the graph whose predecessors in the graph are all among
\* the first j - 1 activities of the queue, and that are not among them
ReadyAt(ordered, j) ==
  {b \in graph :
     /\ \A i \in 1..(j - 1) : ordered[i] # b
     /\ \A d \in activities[b].dependencies \cap graph :
          \E i \in 1..(j - 1) : ordered[i] = d}

\* C33: every queue constructPriorityQueue returns for the graph and the
\* weights of a pass of the loop holds every node of the graph exactly
\* once, each activity after all its predecessors, and each activity has
\* the least score among the activities whose predecessors were all
\* emitted before it
C33_PriorityQueue ==
  (policy = "kart" /\ kartPc = "run") =>
    \A ordered \in SortedActivitiesQueues(graph, weightOfRevealingness,
                                          weightOfResources) :
      ~CycleDetected(graph, ordered) =>
        /\ Len(ordered) = Cardinality(graph)
        /\ {ordered[j] : j \in 1..Len(ordered)} = graph
        /\ \A j \in 1..Len(ordered) :
             /\ ordered[j] \in ReadyAt(ordered, j)
             /\ \A b \in ReadyAt(ordered, j) :
                  calculateWeightedActivityPriority(
                      ordered[j], weightOfRevealingness, weightOfResources)
                    <= calculateWeightedActivityPriority(
                         b, weightOfRevealingness, weightOfResources)

\* a pass after the first finds two activities without predecessors in
\* the graph, of different scores
C33_Witness ==
  /\ policy = "kart"
  /\ kartPc = "run"
  /\ currentTimeSlot > StartTimeSlot
  /\ Cardinality(graph) = 2
  /\ \A n \in graph : activities[n].dependencies = {}
  /\ \E a, b \in graph :
       calculateWeightedActivityPriority(a, weightOfRevealingness,
                                         weightOfResources)
         < calculateWeightedActivityPriority(b, weightOfRevealingness,
                                             weightOfResources)

\* C34: at the end of a pass of the risk-balanced loop weightOfRevealingness
\* changes only when the totalRevealingness of the current slot exceeds
\* the soft maximum, and then it grows by half the excess; it never
\* decreases
C34_ExposureWeightMonotone ==
  [][(policy = "kart" /\ currentTimeSlot' = currentTimeSlot + 1) =>
       LET excess == timeSlots'[currentTimeSlot].totalRevealingness
                       - SoftMaximumOfRevealingness * RevDen
       IN /\ weightOfRevealingness' >= weightOfRevealingness
          /\ weightOfRevealingness' =
               IF excess > 0 THEN weightOfRevealingness + excess
               ELSE weightOfRevealingness]_vars

\* C35: the totalCost returned by the risk-balanced run is the number of
\* time slots the run went through times the daily project cost, plus the
\* monetary_cost_per_day of each placed activity for every time unit of
\* its span
C35_TotalCost ==
  (policy = "kart" /\ kartPc = "returned") =>
    scheduleActivitiesTotalCost
      = currentTimeSlot * DailyProjectCost
          + SumSeq([k \in 1..Len(schedule) |->
                      (schedule[k].activityEndTime
                         - schedule[k].activityStartTime)
                        * activities[schedule[k].id].monetary_cost_per_day])

\* C36: when the earliest-feasible-start run returns, every duration being
\* a whole number of days and no activity requiring more than totalPeople,
\* the ledger holds exactly the time units 0 .. makespan - 1, and the
\* returned totalCost is makespan times projectCostPerDay plus, for every
\* activity, its duration times its monetary_cost_per_day
C36_TotalCost ==
  (/\ policy = "pert"
   /\ pertPc = "returned"
   /\ \A a \in Nodes : /\ activities[a].expected_duration % TimeDen = 0
                       /\ activities[a].expected_duration > 0
                       /\ activities[a].people_required <= totalPeople) =>
    LET makespan ==
          SetMax({0} \cup {pertSchedule[k].end : k \in 1..Len(pertSchedule)})
            \div TimeDen
    IN /\ DOMAIN pertTimeSlots = {u * TimeDen : u \in 0..(makespan - 1)}
       /\ \A t \in DOMAIN pertTimeSlots : pertTimeSlots[t].peopleUsed > 0
       /\ earliestStartTotalCost(pertTimeSlots)
            = makespan * ProjectCostPerDay
                + SumSeq([k \in 1..Len(pertSchedule) |->
                            (activities[pertSchedule[k].id].expected_duration
                               \div TimeDen)
                              * activities[pertSchedule[k].id]
                                  .monetary_cost_per_day])

\* an activity of several days was delayed behind another for want of
\* people, and the run returned
C36_Witness ==
  /\ policy = "pert"
  /\ pertPc = "returned"
  /\ Len(pertSchedule) = Cardinality(Nodes)
  /\ \A a \in Nodes : /\ activities[a].expected_duration % TimeDen = 0
                      /\ activities[a].people_required <= totalPeople
  /\ \E k \in 1..Len(pertSchedule) :
       /\ activities[pertSchedule[k].id].dependencies = {}
       /\ pertSchedule[k].start > 0
       /\ pertSchedule[k].end - pertSchedule[k].start > TimeDen


\* C37: in the look-ahead scheduler no slot of the ledger ever holds more
\* people than totalPeople: an activity is placed only where its whole
\* span fits, and when no start of the look-ahead window fits it is not
\* placed at all
C37_LookAheadWithinCapacity ==
  policy = "pert" =>
    /\ \A t \in DOMAIN pertTimeSlots : pertTimeSlots[t].peopleUsed <= totalPeople
    /\ \A k \in 1..Len(pertSchedule) :
         activities[pertSchedule[k].id].people_required <= totalPeople


\* C38: throughout a risk-balanced run the ids in the schedule and the
\* nodes left in the graph are disjoint and together are the activity set,
\* no id is in the schedule twice, a pass removes from the graph exactly
\* the nodes of the activities it places, and when the run returns the
\* graph has no node left
C38_GraphPartition ==
  [][policy = "kart" =>
       LET ids(sched) == {sched[k].id : k \in 1..Len(sched)}
       IN /\ ids(schedule') \cap graph' = {}
          /\ ids(schedule') \cup graph' = Nodes
          /\ \A j, k \in 1..Len(schedule') :
               schedule'[j].id = schedule'[k].id => j = k
          /\ graph \ graph' = ids(schedule') \ ids(schedule)
          /\ kartPc' = "returned" => graph' = {}]_vars

\* a pass has placed one activity and left another in the graph, which a
\* later pass will place
C38_Witness ==
  /\ policy = "kart"
  /\ kartPc = "run"
  /\ currentTimeSlot > StartTimeSlot
  /\ Len(schedule) = 1
  /\ graph = Nodes \ {schedule[1].id}
  /\ graph # {}


\* C39: in the first pass of a risk-balanced run the exposure of the first
\* time slot starts from startRevealingness: no activity is placed at
\* StartTimeSlot whose level of revealingness added to startRevealingness
\* exceeds the hard maximum
C39_StartRevealingnessCounted ==
  [][(/\ policy = "kart"
      /\ currentTimeSlot = StartTimeSlot
      /\ Len(schedule') > Len(schedule)) =>
       \A k \in (Len(schedule) + 1)..Len(schedule') :
         ~(startRevealingness
             + activities[schedule'[k].id].level_of_revealingness
             > hardMaximumOfRevealingsness)]_vars


\* the length of the longest chain of activities that ends with n, and of
\* the longest chain that begins with n
RECURSIVE LongestTo(_)
LongestTo(n) ==
  activities[n].expected_duration
    + SetMax({LongestTo(e[1]) : e \in InEdges(Nodes, n)})

RECURSIVE LongestFrom(_)
LongestFrom(n) ==
  activities[n].expected_duration
    + SetMax({LongestFrom(e[2]) : e \in OutEdges(Nodes, n)})

LongestChain == SetMax({LongestTo(n) : n \in Nodes})

\* n lies on a chain of the greatest length
OnLongestChain(n) ==
  LongestTo(n) + LongestFrom(n) - activities[n].expected_duration = LongestChain

\* C40: for an acyclic set of activities calculateCriticalPath returns as
\* duration the length of the longest chain of dependencies and as path
\* exactly the activities that lie on a chain of that length
C40_CriticalPath ==
  (policy = "pert" /\ pertPc = "critical") =>
    /\ criticalPath.duration = LongestChain
    /\ Range(criticalPath.path) = {n \in Nodes : OnLongestChain(n)}

====
